---------------------------- MODULE Spec2Model ----------------------------
(***************************************************************************)
(* Twitter Spaces MCP adapter: handleMcpRequest / handleCallTool and the   *)
(* helpers makeApiRequest and pollForCompletion, as a state machine.       *)
(*                                                                         *)
(* One invocation is a JavaScript async call chain.  It is suspended at    *)
(* exactly two kinds of await: a fetch in flight (pc = "fetch") and the    *)
(* poll sleep (pc = "sleep").  Every action runs the code from one         *)
(* resumption up to the next await or to the return of the call.           *)
(*                                                                         *)
(* JavaScript scalars are written as the string of their literal           *)
(* ("undefined", "null", "true", "false", "" ...); strings chosen as       *)
(* inputs never collide with these literals.  Text (a JS string built by   *)
(* concatenation) is the sequence of its parts.                            *)
(*                                                                         *)
(* inv holds the invocations (the requests being served); tools is the     *)
(* module-level array TOOLS, the one object all requests share.            *)
(***************************************************************************)
EXTENDS Integers, Sequences, FiniteSets, TLC

VARIABLES inv, tools

vars == <<inv, tools>>

(***************************************************************************)
(* Bounds of the model.                                                    *)
(***************************************************************************)
\* largest maxAttempts passed to pollForCompletion when it is called directly
MaxDirectAttempts == 3
\* longest tail appended to a URL head when the space_url inputs are built
MaxTail == 2

(***************************************************************************)
(* Program constants.                                                      *)
(***************************************************************************)
DefaultMaxAttempts == 60
DefaultIntervalMs == 5000
TranscribeMaxAttempts == 120
TranscribeIntervalMs == 10000
MethodNotFound == -32601
InternalError == -32603
CompletedStatuses == {"completed"}
FailedStatuses == {"failed"}

\* const TOOLS = [...]: name, the properties of inputSchema, and required
Tool(name, properties, required) ==
  [name |-> name, properties |-> properties, required |-> required]

TOOLS ==
  << Tool("check_space_availability", <<"space_url">>, <<"space_url">>),
     Tool("download_twitter_space", <<"space_url", "wait_for_completion">>, <<"space_url">>),
     Tool("transcribe_space", <<"space_id", "wait_for_completion">>, <<"space_id">>),
     Tool("get_transcript", <<"space_id", "format">>, <<"space_id">>),
     Tool("list_spaces", <<>>, <<>>),
     Tool("download_and_transcribe_space", <<"space_url">>, <<"space_url">>) >>

(***************************************************************************)
(* JavaScript values.                                                      *)
(***************************************************************************)
U == "undefined"

Falsy == {"undefined", "null", "false", "", "0", "NaN"}

Truthy(v) == v \notin Falsy

\* a || b
Or(a, b) == IF Truthy(a) THEN a ELSE b

Min(S) == CHOOSE m \in S : \A n \in S : m <= n
Max(S) == CHOOSE m \in S : \A n \in S : m >= n

\* an argument value: a string (its characters), undefined, or a number
JsString(chars) == [t |-> "string", s |-> chars]
JsUndefined == [t |-> "undefined", s |-> <<"undefined">>]
JsNumber == [t |-> "number", s |-> <<"42">>]

\* `${v}` of an argument value
Interp(v) == v.s

(***************************************************************************)
(* parseConfig and the delay of the timeout timer.  A JS number is         *)
(* [nan, n]: NaN, or the integer n.                                        *)
(***************************************************************************)
Digits == {"0", "1", "2", "3", "4", "5", "6", "7", "8", "9"}

DigitVal(c) ==
  CASE c = "0" -> 0 [] c = "1" -> 1 [] c = "2" -> 2 [] c = "3" -> 3 [] c = "4" -> 4
    [] c = "5" -> 5 [] c = "6" -> 6 [] c = "7" -> 7 [] c = "8" -> 8 [] OTHER -> 9

Num(n) == [nan |-> FALSE, n |-> n]

NaN == [nan |-> TRUE, n |-> 0]

RECURSIVE DigitsValue(_, _)
\* the value of the longest prefix of digits of chars, after acc
DigitsValue(chars, acc) ==
  IF chars = <<>> \/ chars[1] \notin Digits THEN acc
  ELSE DigitsValue(Tail(chars), acc * 10 + DigitVal(chars[1]))

\* parseInt(string): an optional sign, then the longest prefix of digits; NaN
\* when there is no digit
ParseInt(chars) ==
  LET signed == chars # <<>> /\ chars[1] \in {"-", "+"}
      rest == IF signed THEN Tail(chars) ELSE chars
  IN  IF rest = <<>> \/ rest[1] \notin Digits THEN NaN
      ELSE IF signed /\ chars[1] = "-" THEN Num(0 - DigitsValue(rest, 0))
      ELSE Num(DigitsValue(rest, 0))

DefaultTimeout == 30

\* a number is truthy unless it is NaN or 0
TruthyNum(x) == ~x.nan /\ x.n # 0

\* parseConfig(query): timeout is query.timeout ? parseInt(query.timeout) : 30
ParseConfig(q) ==
  [ apiUrl |-> Or(q.apiUrl, "http://localhost:8000"),
    timeout |-> IF q.timeout.t = "string" /\ q.timeout.s # <<>>
                THEN ParseInt(q.timeout.s) ELSE Num(DefaultTimeout) ]

\* (config.timeout || 30) * 1000, the delay given to setTimeout
TimeoutMs(config) ==
  (IF TruthyNum(config.timeout) THEN config.timeout.n ELSE DefaultTimeout) * 1000

(***************************************************************************)
(* space_url.match(/\/spaces\/([a-zA-Z0-9]+)/)                             *)
(***************************************************************************)
Alnum ==
  { "a","b","c","d","e","f","g","h","i","j","k","l","m","n","o","p","q","r",
    "s","t","u","v","w","x","y","z",
    "A","B","C","D","E","F","G","H","I","J","K","L","M","N","O","P","Q","R",
    "S","T","U","V","W","X","Y","Z",
    "0","1","2","3","4","5","6","7","8","9" }

SpacesLit == <<"/", "s", "p", "a", "c", "e", "s", "/">>

\* the regular expression matches at position p of u
MatchAt(u, p) ==
  /\ p + Len(SpacesLit) <= Len(u)
  /\ SubSeq(u, p, p + Len(SpacesLit) - 1) = SpacesLit
  /\ u[p + Len(SpacesLit)] \in Alnum

\* variant: a group that is not greedy, ([a-zA-Z0-9]+?)
AlnumRunLazy(u, q) == SubSeq(u, q, q)

\* the greedy group ([a-zA-Z0-9]+) starting at position q
AlnumRun(u, q) ==
  LET ends == { e \in q..Len(u) : \A j \in q..e : u[j] \in Alnum }
  IN  SubSeq(u, q, Max(ends))

NoMatch == <<>>

\* spaceIdMatch[1], or NoMatch when match() returns null (a match is never empty)
SpaceIdMatch(u) ==
  LET ps == { p \in 1..Len(u) : MatchAt(u, p) }
  IN  IF ps = {} THEN NoMatch ELSE AlnumRun(u, Min(ps) + Len(SpacesLit))

(***************************************************************************)
(* Inputs: the space_url values.                                           *)
(***************************************************************************)
TailChars == {"1", "Z", "-", "/"}

RECURSIVE Tails(_)
Tails(n) ==
  IF n = 0 THEN {<<>>}
  ELSE Tails(n - 1) \cup { Append(t, c) : t \in { x \in Tails(n - 1) : Len(x) = n - 1 }, c \in TailChars }

UrlHeads ==
  { <<>>,
    <<"x", "/", "i">> \o SpacesLit,
    <<"x", "/", "i", "/", "s", "p", "a", "c", "e", "/">>,
    SpacesLit \o SpacesLit }

SpaceUrls == { h \o t : h \in UrlHeads, t \in Tails(MaxTail) }

\* the space_url inputs of download_and_transcribe_space: every head, with a
\* few tails
WorkflowUrls ==
  { h \o t : h \in UrlHeads, t \in {<<>>, <<"-">>, <<"1", "Z">>, <<"Z", "/">>, <<"-", "1">>} }

SampleUrl == <<"x", "/", "i">> \o SpacesLit \o <<"1", "Z">>

\* space_url as it can arrive in the arguments of a tool call
UrlValues == { JsString(u) : u \in SpaceUrls } \cup { JsUndefined, JsNumber }

WorkflowUrlValues == { JsString(u) : u \in WorkflowUrls } \cup { JsUndefined, JsNumber }

\* download_twitter_space does not look into the URL
OpaqueUrlValues == { JsString(SampleUrl), JsString(<<"x">>), JsUndefined }

(***************************************************************************)
(* Backend answers.  A JSON body is an object of the fields the handlers   *)
(* read (an absent field is undefined) or the JSON value null.             *)
(***************************************************************************)
NoSpaces == [present |-> FALSE, items |-> <<>>]

EmptyObj ==
  [ json |-> "object", status |-> U, message |-> U, error |-> U,
    space_id |-> U, filename |-> U, r2_url |-> U,
    download_id |-> U, transcription_id |-> U,
    available |-> U, space_info |-> U, title |-> U, creator_name |-> U, state |-> U,
    r2_configured |-> U, spaces |-> NoSpaces ]

JsonNull == [EmptyObj EXCEPT !.json = "null"]

\* GET /api/check-space/{id}
CheckBodies ==
  { JsonNull,
    EmptyObj,
    [EmptyObj EXCEPT !.available = "true", !.status = "ended",
                     !.space_info = "object", !.title = "T", !.state = "Ended"],
    [EmptyObj EXCEPT !.available = "true"],
    [EmptyObj EXCEPT !.available = "false", !.error = "gone"],
    [EmptyObj EXCEPT !.available = "false"] }

\* POST /api/download
DownloadBodies ==
  { JsonNull,
    EmptyObj,
    [EmptyObj EXCEPT !.download_id = "d1", !.status = "started", !.message = "queued"] }

\* GET /api/status/{download_id}
RunningSnapshots ==
  { EmptyObj,
    [EmptyObj EXCEPT !.status = "processing", !.message = "working"] }

CompletedSnapshots ==
  { [EmptyObj EXCEPT !.status = "completed"],
    [EmptyObj EXCEPT !.status = "completed", !.space_id = "sA", !.filename = "sA.mp3",
                     !.message = "done"],
    [EmptyObj EXCEPT !.status = "completed", !.space_id = "sB", !.filename = "sB.mp3",
                     !.r2_url = "r2/sB", !.message = "done"] }

FailedSnapshots ==
  { [EmptyObj EXCEPT !.status = "failed"],
    [EmptyObj EXCEPT !.status = "failed", !.message = "no luck"],
    [EmptyObj EXCEPT !.status = "failed", !.error = "", !.message = "no luck"],
    [EmptyObj EXCEPT !.status = "failed", !.error = "E1", !.message = "no luck"] }

StatusBodies == {JsonNull} \cup RunningSnapshots \cup CompletedSnapshots \cup FailedSnapshots

\* POST /api/transcribe
TranscribeBodies ==
  { JsonNull,
    EmptyObj,
    [EmptyObj EXCEPT !.transcription_id = "t1", !.space_id = "sA", !.status = "started",
                     !.message = "queued"] }

\* GET /api/transcription/status/{transcription_id}
TranscriptionStatusBodies ==
  { JsonNull,
    [EmptyObj EXCEPT !.status = "processing", !.message = "working"],
    [EmptyObj EXCEPT !.status = "completed", !.message = "done"],
    [EmptyObj EXCEPT !.status = "failed", !.error = "E2"] }

\* GET /api/spaces
Space1 ==
  [ title |-> "Talk", id |-> "sA", creator_name |-> "Ann", creator_screen_name |-> "ann",
    start_date |-> "2024", has_audio |-> "true", has_transcript |-> "false",
    audio_size |-> 5505024, state |-> "Ended" ]

Space2 ==
  [ title |-> U, id |-> "sB", creator_name |-> U, creator_screen_name |-> U,
    start_date |-> U, has_audio |-> "false", has_transcript |-> "true",
    audio_size |-> 0, state |-> U ]

SpacesBodies ==
  { JsonNull,
    EmptyObj,
    [EmptyObj EXCEPT !.r2_configured = "false"],
    [EmptyObj EXCEPT !.r2_configured = "false",
                     !.spaces = [present |-> TRUE, items |-> <<Space1>>]],
    [EmptyObj EXCEPT !.r2_configured = "true"],
    [EmptyObj EXCEPT !.r2_configured = "true",
                     !.spaces = [present |-> TRUE, items |-> <<>>]],
    [EmptyObj EXCEPT !.r2_configured = "true",
                     !.spaces = [present |-> TRUE, items |-> <<Space1, Space2>>]] }

Bodies(ep) ==
  CASE ep = "check" -> CheckBodies
    [] ep = "download" -> DownloadBodies
    [] ep = "status" -> StatusBodies
    [] ep = "transcribe" -> TranscribeBodies
    [] ep = "trstatus" -> TranscriptionStatusBodies
    [] ep = "spaces" -> SpacesBodies
    [] OTHER -> {EmptyObj}

\* the endpoints requested once per call, and the status endpoints
Endpoints == {"check", "download", "transcribe", "spaces", "transcript"}

PollEndpoints == {"status", "trstatus"}

\* how a fetch can settle, the body read included:
\*   ok      2xx, body read (and parsed when JSON is expected)
\*   badjson 2xx, response.json() rejects
\*   http    non-2xx with a status and a body text
\*   neterr  fetch rejects (network error)
Outcome(kind, body, status, text) == [kind |-> kind, body |-> body, status |-> status, text |-> text]

Failures ==
  { Outcome("http", EmptyObj, "404", "not found"),
    Outcome("http", EmptyObj, "500", "boom"),
    Outcome("neterr", EmptyObj, "0", "") }

Outcomes(ep) ==
  IF ep = "transcript"
  THEN { Outcome("ok", EmptyObj, "200", "the transcript") } \cup Failures
  ELSE { Outcome("ok", b, "200", "") : b \in Bodies(ep) }
         \cup { Outcome("badjson", EmptyObj, "200", "<html>") } \cup Failures

(***************************************************************************)
(* The state of one invocation.                                            *)
(*   pc        idle | fetch (awaiting fetch) | sleep (awaiting the poll    *)
(*             sleep) | done                                               *)
(*   call      what was invoked and with which arguments                   *)
(*   stage     the await the code is suspended at                          *)
(*   acc, downloadStatus, statusUrl, attempt, maxAttempts, intervalMs      *)
(*             locals of the handler and of pollForCompletion              *)
(*   response  what the invocation answered                                *)
(* History (written, never read by the code):                              *)
(*   calls      requests sent so far, per endpoint of Endpoints            *)
(*   polled     the status endpoints requested so far                      *)
(*   pollStage, pollCalls, sleeps, sleepDurs                               *)
(*              the poll in progress (or the last one), its requests and   *)
(*              sleeps, and the durations slept                            *)
(*   lastSettle how the last fetch settled                                 *)
(*   lastBody   the last JSON body makeApiRequest returned                 *)
(*   lastRead, returned                                                    *)
(*              the last snapshot read, the snapshot the poll returned     *)
(*   outcome    how each poll ended; available: the availability verdict   *)
(*   lastReq, inflight, timers, timerMs                                    *)
(*              the last request, requests in flight, timers pending, the  *)
(*              delay of the last timer armed                              *)
(***************************************************************************)
PollStages == {"dlpoll", "trpoll", "poll"}

Req(method, ep, id, body) == [method |-> method, ep |-> ep, id |-> id, body |-> body]

NoReq == Req("none", "none", <<>>, <<>>)

NoResponse ==
  [ kind |-> "none", code |-> 0, content |-> "none", text |-> <<>>, thrown |-> "none",
    tools |-> <<>> ]

\* req.query: the configuration as it came with the request
NoQuery == [apiUrl |-> "undefined", timeout |-> JsUndefined]

SomeQuery == [apiUrl |-> "http://api", timeout |-> JsString(<<"6", "0">>)]

NoCall ==
  [ op |-> "none", query |-> NoQuery, method |-> U, params |-> U, name |-> U, args |-> U,
    space_url |-> JsUndefined, wait |-> U, space_id |-> U, format |-> U ]

Idle ==
  [ pc |-> "idle", call |-> NoCall, stage |-> "none",
    acc |-> <<>>, downloadStatus |-> EmptyObj,
    statusUrl |-> NoReq, attempt |-> 0, maxAttempts |-> 0, intervalMs |-> 0,
    response |-> NoResponse,
    calls |-> [e \in Endpoints |-> 0], polled |-> {}, lastReq |-> NoReq, inflight |-> 0, timers |-> 0,
    timerMs |-> 0,
    pollStage |-> "none", pollCalls |-> 0, sleeps |-> 0, sleepDurs |-> {},
    lastSettle |-> "none", lastBody |-> EmptyObj,
    lastRead |-> EmptyObj, returned |-> EmptyObj,
    outcome |-> [p \in PollStages |-> "none"], available |-> "none" ]

Err(kind, msg) == [kind |-> kind, msg |-> msg]

(***************************************************************************)
(* How a call ends.                                                        *)
(***************************************************************************)
\* handleCallTool returns { content: [{ type: 'text', text }] } and
\* handleMcpRequest wraps it as the result; a direct call returns the value
Return(s, text) ==
  [s EXCEPT !.pc = "done", !.stage = "none",
            !.response = [kind |-> IF s.call.op = "mcp" THEN "result" ELSE "returned",
                          code |-> 0, content |-> "text", text |-> text, thrown |-> "none",
                          tools |-> <<>>]]

\* handleMcpRequest answers with a JSON-RPC error object
McpError(s, code, msg, kind) ==
  [s EXCEPT !.pc = "done", !.stage = "none",
            !.response = [kind |-> "error", code |-> code, content |-> "none",
                          text |-> msg, thrown |-> kind, tools |-> <<>>]]

\* the prefix each handler registered with server.tool puts before the message
\* of the error it caught
ErrorPrefix(name) ==
  CASE name = "check_space_availability" -> "Error checking space availability: "
    [] name = "download_twitter_space" -> "Error downloading space: "
    [] name = "transcribe_space" -> "Error transcribing space: "
    [] name = "get_transcript" -> "Error getting transcript: "
    [] name = "list_spaces" -> "Error listing spaces: "
    [] OTHER -> "Error in complete process: "

\* the catch of a handler registered with server.tool: the error becomes the
\* text the handler returns
ToolCatch(s, err) ==
  [s EXCEPT !.pc = "done", !.stage = "none",
            !.response = [kind |-> "returned", code |-> 0, content |-> "text",
                          text |-> <<ErrorPrefix(s.call.name)>> \o err.msg,
                          thrown |-> err.kind, tools |-> <<>>]]

\* variant: the catch of handleCallTool puts the progress text before the error
ThrowWithProgress(s, err) ==
  IF s.call.op = "mcp"
  THEN [s EXCEPT !.pc = "done", !.stage = "none",
                 !.response = [kind |-> "result", code |-> 0, content |-> "text",
                               text |-> s.acc \o <<"Error: ">> \o err.msg,
                               thrown |-> err.kind, tools |-> <<>>]]
  ELSE [s EXCEPT !.pc = "done", !.stage = "none",
                 !.response = [kind |-> "thrown", code |-> 0, content |-> "none",
                               text |-> err.msg, thrown |-> err.kind, tools |-> <<>>]]

\* an error thrown inside the try of handleCallTool is turned into text by its
\* catch; one thrown by a direct call of pollForCompletion reaches the caller
Throw(s, err) ==
  IF s.call.op = "mcp"
  THEN [s EXCEPT !.pc = "done", !.stage = "none",
                 !.response = [kind |-> "result", code |-> 0, content |-> "text",
                               text |-> <<"Error: ">> \o err.msg, thrown |-> err.kind,
                               tools |-> <<>>]]
  ELSE IF s.call.op = "tool" THEN ToolCatch(s, err)
  ELSE [s EXCEPT !.pc = "done", !.stage = "none",
                 !.response = [kind |-> "thrown", code |-> 0, content |-> "none",
                               text |-> err.msg, thrown |-> err.kind, tools |-> <<>>]]

NullRead == Err("TypeError", <<"Cannot read properties of null">>)

(***************************************************************************)
(* makeApiRequest                                                          *)
(***************************************************************************)
\* clearTimeout(timeoutId): a timer that fired or was cleared is left alone
ClearTimeout(s) == [s EXCEPT !.timers = IF @ > 0 THEN @ - 1 ELSE 0]

\* setTimeout(() => controller.abort(), ...) and fetch(url, { signal })
Fetch(s, stage, req) ==
  [s EXCEPT !.pc = "fetch", !.stage = stage, !.lastReq = req,
            !.calls = IF req.ep \in Endpoints THEN [@ EXCEPT ![req.ep] = @ + 1] ELSE @,
            !.polled = IF req.ep \in PollEndpoints THEN @ \cup {req.ep} ELSE @,
            !.inflight = @ + 1, !.timers = @ + 1,
            !.timerMs = TimeoutMs(ParseConfig(s.call.query))]

\* makeApiRequest up to its await of fetch: one timer armed, one request sent
MakeApiRequest(s, stage, req) == Fetch(s, stage, req)

\* the Error makeApiRequest throws from its catch: the message of the error
\* caught, prefixed
ApiError(o) ==
  Err("RequestError",
      <<"API request failed: ">> \o
        ( CASE o.kind = "http" -> <<"HTTP ", o.status, ": ", o.text>>
            [] o.kind = "badjson" -> <<"Unexpected token in JSON">>
            [] o.kind = "abort" -> <<"This operation was aborted">>
            [] OTHER -> <<"fetch failed">> ))

(***************************************************************************)
(* pollForCompletion                                                       *)
(***************************************************************************)
\* variant: the workflow goes on to the transcription when the download poll throws
PollThrowSwallowed(s, how, err) ==
  IF s.call.name = "download_and_transcribe_space" /\ s.stage = "dlpoll"
  THEN MakeApiRequest([s EXCEPT !.outcome[s.stage] = how], "transcribe",
                      Req("POST", "transcribe", <<>>, <<"{}">>))
  ELSE Throw([s EXCEPT !.outcome[s.stage] = how], err)

\* pollForCompletion throws: the error propagates to the caller of the poll
PollThrow(s, how, err) == Throw([s EXCEPT !.outcome[s.stage] = how], err)

\* variant: a poll without the attempt budget, while (true)
PollLoopForever(s) ==
  MakeApiRequest([s EXCEPT !.pollCalls = @ + 1], s.stage, s.statusUrl)

\* variant: the loop test attempt <= maxAttempts
PollLoopInclusive(s) ==
  IF s.attempt <= s.maxAttempts
  THEN MakeApiRequest([s EXCEPT !.pollCalls = @ + 1], s.stage, s.statusUrl)
  ELSE PollThrow(s, "TimedOut",
                 Err("Timeout", <<"Operation timed out after ", ToString(s.maxAttempts),
                                  " attempts">>))

\* for (...; attempt < maxAttempts; ...) { status = await makeApiRequest(statusUrl)
\* and, after the loop, throw the timed-out error
PollLoop(s) ==
  IF s.attempt < s.maxAttempts
  THEN MakeApiRequest([s EXCEPT !.pollCalls = @ + 1], s.stage, s.statusUrl)
  ELSE PollThrow(s, "TimedOut",
                 Err("Timeout", <<"Operation timed out after ", ToString(s.maxAttempts),
                                  " attempts">>))

\* the call pollForCompletion(statusUrl, config, ['completed'], ['failed'], n, ms)
StartPoll(s, stage, statusUrl, n, ms) ==
  PollLoop([s EXCEPT !.stage = stage, !.statusUrl = statusUrl,
                     !.attempt = 0, !.maxAttempts = n, !.intervalMs = ms,
                     !.pollStage = stage, !.pollCalls = 0, !.sleeps = 0, !.sleepDurs = {},
                     !.lastRead = EmptyObj, !.outcome[stage] = "Polling"])

\* variant: a sleep that backs off, intervalMs * (attempt + 1)
SleepBackoff(s) ==
  [s EXCEPT !.pc = "sleep", !.sleeps = @ + 1,
            !.sleepDurs = @ \cup {s.intervalMs * (s.attempt + 1)}]

\* variant: the next status request is sent while the sleep is pending
SleepPrefetch(s) ==
  [Fetch(s, s.stage, s.statusUrl) EXCEPT !.pc = "sleep", !.sleeps = @ + 1,
                                         !.sleepDurs = @ \cup {s.intervalMs}]

\* await new Promise(resolve => setTimeout(resolve, intervalMs))
Sleep(s) ==
  [s EXCEPT !.pc = "sleep", !.sleeps = @ + 1, !.sleepDurs = @ \cup {s.intervalMs}]

(***************************************************************************)
(* Tool handlers: the code after each await.                               *)
(***************************************************************************)
\* JSON.stringify({ key: value }): an undefined value is left out
\* the glyphs of the text literals, written as the code points the source file
\* holds between the quotes
CheckMarkRoute == "<201A><00FA><00D6>"

CrossMarkRoute == "<201A><00F9><00E5>"

PartyMarkRoute == "<F8FF><00FC><00E9><00E2>"

\* the same literals in the handlers registered with server.tool
CheckMarkTool == "<00E2><0153><2026>"

CrossMarkTool == "<00E2><0152>"

PartyMarkTool == "<00F0><0178><017D><2030>"

CheckMark(s) == IF s.call.op = "tool" THEN CheckMarkTool ELSE CheckMarkRoute

CrossMark(s) == IF s.call.op = "tool" THEN CrossMarkTool ELSE CrossMarkRoute

PartyMark(s) == IF s.call.op = "tool" THEN PartyMarkTool ELSE PartyMarkRoute

JsonBody(key, value) == IF value = <<U>> THEN <<"{}">> ELSE <<key>> \o value

DownloadStartedText(s, r) ==
  <<"Started download for ">> \o Interp(s.call.space_url) \o <<"\n",
    "Download ID: ", r.download_id, "\n",
    "Status: ", r.status, "\n",
    "Message: ", r.message, "\n\n">>

DownloadCompletedText(s, f) ==
  <<CheckMark(s), " Download completed!\n",
    "Space ID: ", f.space_id, "\n",
    "Filename: ", f.filename, "\n">>
  \o (IF Truthy(f.r2_url) THEN <<"R2 URL: ", f.r2_url, "\n">> ELSE <<>>)
  \o <<"Final Message: ", f.message, "\n">>

TranscribeStartedText(s, r) ==
  <<"Started transcription for space ", s.call.space_id, "\n",
    "Transcription ID: ", r.transcription_id, "\n",
    "Status: ", r.status, "\n",
    "Message: ", r.message, "\n\n">>

TranscribeCompletedText(s, f) ==
  <<CheckMark(s), " Transcription completed!\n",
    "Final Message: ", f.message, "\n",
    "\nYou can now download the transcript in different formats using the 'get_transcript' tool.">>

CompleteText(s, d) ==
  <<"   ", CheckMark(s), " Transcription completed\n\n",
    PartyMark(s), " Complete! Space ", d.space_id, " has been downloaded and transcribed.\n",
    "Use the 'get_transcript' tool with space_id=\"", d.space_id, "\" to view the transcript.">>

\* variant: the transcription is started with the id extracted from the URL
PollReturnUrlId(s, snap) ==
  LET s1 == [s EXCEPT !.outcome[s.stage] = "Completed", !.returned = snap]
  IN  CASE s.call.op = "poll" -> Return(s1, <<>>)
        [] s.call.name = "download_twitter_space" ->
             Return(s1, s1.acc \o DownloadCompletedText(s, snap))
        [] s.call.name = "transcribe_space" ->
             Return(s1, s1.acc \o TranscribeCompletedText(s, snap))
        [] s.call.name = "download_and_transcribe_space" /\ s.stage = "dlpoll" ->
             MakeApiRequest(
               [s1 EXCEPT !.downloadStatus = snap,
                          !.acc = @ \o <<"   ", CheckMark(s), " Download completed\n",
                                         "   Filename: ", snap.filename, "\n\n",
                                         "3. Starting transcription...\n">>],
               "transcribe",
               Req("POST", "transcribe", <<>>,
                   JsonBody("space_id", SpaceIdMatch(s.call.space_url.s))))
        [] OTHER ->
             Return(s1, s1.acc \o CompleteText(s, s1.downloadStatus))

\* pollForCompletion returns the snapshot: the handler goes on after its await
PollReturn(s, snap) ==
  LET s1 == [s EXCEPT !.outcome[s.stage] = "Completed", !.returned = snap]
  IN  CASE s.call.op = "poll" -> Return(s1, <<>>)
        [] s.call.name = "download_twitter_space" ->
             Return(s1, s1.acc \o DownloadCompletedText(s, snap))
        [] s.call.name = "transcribe_space" ->
             Return(s1, s1.acc \o TranscribeCompletedText(s, snap))
        [] s.call.name = "download_and_transcribe_space" /\ s.stage = "dlpoll" ->
             MakeApiRequest(
               [s1 EXCEPT !.downloadStatus = snap,
                          !.acc = @ \o <<"   ", CheckMark(s), " Download completed\n",
                                         "   Filename: ", snap.filename, "\n\n",
                                         "3. Starting transcription...\n">>],
               "transcribe",
               Req("POST", "transcribe", <<>>, JsonBody("space_id", <<snap.space_id>>)))
        [] OTHER ->
             Return(s1, s1.acc \o CompleteText(s, s1.downloadStatus))

\* variant: a tick that does not sleep after the last attempt of the budget
PollTickNoLastSleep(s, status) ==
  LET s1 == [s EXCEPT !.lastRead = status]
  IN  IF status.json = "null" THEN PollThrow(s1, "TypeError", NullRead)
      ELSE IF status.status \in CompletedStatuses THEN PollReturn(s1, status)
      ELSE IF status.status \in FailedStatuses
      THEN PollThrow(s1, "Failed",
                     Err("OperationFailed",
                         <<"Operation failed: ", Or(status.error, status.message)>>))
      ELSE IF s.attempt + 1 >= s.maxAttempts
      THEN PollLoop([s1 EXCEPT !.attempt = @ + 1])
      ELSE Sleep(s1)

\* variant: the error of a failed status is status.message || status.error
PollTickMessageFirst(s, status) ==
  LET s1 == [s EXCEPT !.lastRead = status]
  IN  IF status.json = "null" THEN PollThrow(s1, "TypeError", NullRead)
      ELSE IF status.status \in CompletedStatuses THEN PollReturn(s1, status)
      ELSE IF status.status \in FailedStatuses
      THEN PollThrow(s1, "Failed",
                     Err("OperationFailed",
                         <<"Operation failed: ", Or(status.message, status.error)>>))
      ELSE Sleep(s1)

\* variant: a tick that takes every status but a completed one as a failure
PollTickUnknownFails(s, status) ==
  LET s1 == [s EXCEPT !.lastRead = status]
  IN  IF status.json = "null" THEN PollThrow(s1, "TypeError", NullRead)
      ELSE IF status.status \in CompletedStatuses THEN PollReturn(s1, status)
      ELSE PollThrow(s1, "Failed",
                     Err("OperationFailed",
                         <<"Operation failed: ", Or(status.error, status.message)>>))

\* variant: a tick without the failedStatuses test
PollTickNoFailedTest(s, status) ==
  LET s1 == [s EXCEPT !.lastRead = status]
  IN  IF status.json = "null" THEN PollThrow(s1, "TypeError", NullRead)
      ELSE IF status.status \in CompletedStatuses THEN PollReturn(s1, status)
      ELSE Sleep(s1)

\* one tick of pollForCompletion after makeApiRequest returned the snapshot
PollTick(s, status) ==
  LET s1 == [s EXCEPT !.lastRead = status]
  IN  IF status.json = "null" THEN PollThrow(s1, "TypeError", NullRead)
      ELSE IF status.status \in CompletedStatuses THEN PollReturn(s1, status)
      ELSE IF status.status \in FailedStatuses
      THEN PollThrow(s1, "Failed",
                     Err("OperationFailed",
                         <<"Operation failed: ", Or(status.error, status.message)>>))
      ELSE Sleep(s1)

\* check_space_availability after its request
AfterCheck(s, r) ==
  IF r.json = "null" THEN Throw(s, NullRead)
  ELSE Return(s,
         <<"Space Availability Check for ">> \o Interp(s.call.space_url) \o <<":\n\n",
           "Available: ">>
         \o (IF Truthy(r.available) THEN <<CheckMark(s), " Yes">> ELSE <<CrossMark(s), " No">>)
         \o <<"\n", "Status: ", Or(r.status, "Unknown"), "\n">>
         \o (IF Truthy(r.error) THEN <<"Error: ", r.error, "\n">> ELSE <<>>)
         \o (IF Truthy(r.space_info)
             THEN <<"Title: ", Or(r.title, "Unknown"), "\n",
                    "Creator: ", Or(r.creator_name, "Unknown"), "\n",
                    "State: ", Or(r.state, "Unknown"), "\n">>
             ELSE <<>>))

\* variant: the workflow without the test of availability.available
AfterAvailabilityNoTest(s, r) ==
  IF r.json = "null" THEN Throw(s, NullRead)
  ELSE MakeApiRequest(
         [s EXCEPT !.available = IF Truthy(r.available) THEN "yes" ELSE "no",
                   !.acc = @ \o <<"   ", CheckMark(s), " Space is available\n\n",
                                  "2. Starting download...\n">>],
         "download",
         Req("POST", "download", <<>>, JsonBody("space_url", Interp(s.call.space_url))))

\* download_and_transcribe_space after the availability request
AfterAvailability(s, r) ==
  IF r.json = "null" THEN Throw(s, NullRead)
  ELSE IF ~Truthy(r.available)
  THEN Throw([s EXCEPT !.available = "no"],
             Err("NotAvailable", <<"Space not available: ", r.error>>))
  ELSE MakeApiRequest(
         [s EXCEPT !.available = "yes",
                   !.acc = @ \o <<"   ", CheckMark(s), " Space is available\n\n",
                                  "2. Starting download...\n">>],
         "download",
         Req("POST", "download", <<>>, JsonBody("space_url", Interp(s.call.space_url))))

\* variant: the workflow starts the transcription without awaiting the download poll
AfterDownloadStartNoPoll(s, r) ==
  IF r.json = "null" THEN Throw(s, NullRead)
  ELSE IF s.call.name = "download_and_transcribe_space"
  THEN MakeApiRequest([s EXCEPT !.acc = @ \o <<"   Download ID: ", r.download_id, "\n">>],
                      "transcribe", Req("POST", "transcribe", <<>>, <<"{}">>))
  ELSE LET s1 == [s EXCEPT !.acc = DownloadStartedText(s, r)]
           wait == IF s.call.wait = U THEN "true" ELSE s.call.wait
       IN  IF Truthy(wait)
           THEN StartPoll([s1 EXCEPT !.acc = @ \o <<"Waiting for download to complete...\n\n">>],
                          "dlpoll", Req("GET", "status", <<r.download_id>>, <<>>),
                          DefaultMaxAttempts, DefaultIntervalMs)
           ELSE Return(s1, s1.acc)

\* variant: wait_for_completion without its default of true
AfterDownloadStartNoDefault(s, r) ==
  IF r.json = "null" THEN Throw(s, NullRead)
  ELSE IF s.call.name = "download_and_transcribe_space"
  THEN StartPoll([s EXCEPT !.acc = @ \o <<"   Download ID: ", r.download_id, "\n">>],
                 "dlpoll", Req("GET", "status", <<r.download_id>>, <<>>),
                 DefaultMaxAttempts, DefaultIntervalMs)
  ELSE LET s1 == [s EXCEPT !.acc = DownloadStartedText(s, r)]
       IN  IF Truthy(s.call.wait)
           THEN StartPoll([s1 EXCEPT !.acc = @ \o <<"Waiting for download to complete...\n\n">>],
                          "dlpoll", Req("GET", "status", <<r.download_id>>, <<>>),
                          DefaultMaxAttempts, DefaultIntervalMs)
           ELSE Return(s1, s1.acc)

\* after POST /api/download
AfterDownloadStart(s, r) ==
  IF r.json = "null" THEN Throw(s, NullRead)
  ELSE IF s.call.name = "download_and_transcribe_space"
  THEN StartPoll([s EXCEPT !.acc = @ \o <<"   Download ID: ", r.download_id, "\n">>],
                 "dlpoll", Req("GET", "status", <<r.download_id>>, <<>>),
                 DefaultMaxAttempts, DefaultIntervalMs)
  ELSE LET s1 == [s EXCEPT !.acc = DownloadStartedText(s, r)]
           wait == IF s.call.wait = U THEN "true" ELSE s.call.wait
       IN  IF Truthy(wait)
           THEN StartPoll([s1 EXCEPT !.acc = @ \o <<"Waiting for download to complete...\n\n">>],
                          "dlpoll", Req("GET", "status", <<r.download_id>>, <<>>),
                          DefaultMaxAttempts, DefaultIntervalMs)
           ELSE Return(s1, s1.acc)

\* variant: the transcription polls with the defaults of pollForCompletion
AfterTranscribeStartDefaults(s, r) ==
  IF r.json = "null" THEN Throw(s, NullRead)
  ELSE IF s.call.name = "download_and_transcribe_space"
  THEN StartPoll([s EXCEPT !.acc = @ \o <<"   Transcription ID: ", r.transcription_id, "\n">>],
                 "trpoll", Req("GET", "trstatus", <<r.transcription_id>>, <<>>),
                 DefaultMaxAttempts, DefaultIntervalMs)
  ELSE LET s1 == [s EXCEPT !.acc = TranscribeStartedText(s, r)]
           wait == IF s.call.wait = U THEN "true" ELSE s.call.wait
       IN  IF Truthy(wait)
           THEN StartPoll([s1 EXCEPT !.acc = @ \o <<"Waiting for transcription to complete...\n\n">>],
                          "trpoll", Req("GET", "trstatus", <<r.transcription_id>>, <<>>),
                          DefaultMaxAttempts, DefaultIntervalMs)
           ELSE Return(s1, s1.acc)

\* after POST /api/transcribe
AfterTranscribeStart(s, r) ==
  IF r.json = "null" THEN Throw(s, NullRead)
  ELSE IF s.call.name = "download_and_transcribe_space"
  THEN StartPoll([s EXCEPT !.acc = @ \o <<"   Transcription ID: ", r.transcription_id, "\n">>],
                 "trpoll", Req("GET", "trstatus", <<r.transcription_id>>, <<>>),
                 TranscribeMaxAttempts, TranscribeIntervalMs)
  ELSE LET s1 == [s EXCEPT !.acc = TranscribeStartedText(s, r)]
           wait == IF s.call.wait = U THEN "true" ELSE s.call.wait
       IN  IF Truthy(wait)
           THEN StartPoll([s1 EXCEPT !.acc = @ \o <<"Waiting for transcription to complete...\n\n">>],
                          "trpoll", Req("GET", "trstatus", <<r.transcription_id>>, <<>>),
                          TranscribeMaxAttempts, TranscribeIntervalMs)
           ELSE Return(s1, s1.acc)

\* (space.audio_size / 1024 / 1024).toFixed(2): hundredths, ties rounded up
FixedMB(size) ==
  LET h == (size * 200 + 1048576) \div 2097152
  IN  <<ToString(h \div 100), ".", ToString((h % 100) \div 10), ToString(h % 10)>>

RECURSIVE SpacesText(_, _, _)
\* spaces.forEach((space, index) => ...) from index i on
SpacesText(s, spaces, i) ==
  IF i > Len(spaces) THEN <<>>
  ELSE LET space == spaces[i]
       IN  <<ToString(i), ". ", Or(space.title, "Untitled Space"), "\n",
             "   ID: ", space.id, "\n",
             "   Creator: ", Or(space.creator_name, "Unknown"),
             " (@", Or(space.creator_screen_name, "unknown"), ")\n",
             "   Date: ", Or(space.start_date, "Unknown"), "\n",
             "   Audio: ">>
           \o (IF Truthy(space.has_audio) THEN <<CheckMark(s), " Available">>
               ELSE <<CrossMark(s), " Missing">>)
           \o <<"\n", "   Transcript: ">>
           \o (IF Truthy(space.has_transcript) THEN <<CheckMark(s), " Available">>
               ELSE <<CrossMark(s), " Not transcribed">>)
           \o <<"\n">>
           \o (IF space.audio_size # 0
               THEN <<"   Size: ">> \o FixedMB(space.audio_size) \o <<" MB\n">>
               ELSE <<>>)
           \o <<"   State: ", Or(space.state, "Unknown"), "\n\n">>
           \o SpacesText(s, spaces, i + 1)

\* variant: list_spaces without the default of an empty list for spaces
AfterSpacesNoDefault(s, r) ==
  IF r.json = "null" THEN Throw(s, NullRead)
  ELSE IF ~Truthy(r.r2_configured)
  THEN Return(s, <<"R2 storage is not configured. No spaces available.">>)
  ELSE IF ~r.spaces.present
  THEN Throw(s, Err("TypeError", <<"Cannot read properties of undefined (reading 'length')">>))
  ELSE IF Len(r.spaces.items) = 0
  THEN Return(s, <<"No spaces found. Download some Twitter Spaces to get started!">>)
  ELSE Return(s, <<"Found ", ToString(Len(r.spaces.items)), " spaces:\n\n">>
                 \o SpacesText(s, r.spaces.items, 1))

\* list_spaces after its request
AfterSpaces(s, r) ==
  IF r.json = "null" THEN Throw(s, NullRead)
  ELSE IF ~Truthy(r.r2_configured)
  THEN Return(s, <<"R2 storage is not configured. No spaces available.">>)
  ELSE LET spaces == IF r.spaces.present THEN r.spaces.items ELSE <<>>
       IN  IF Len(spaces) = 0
           THEN Return(s, <<"No spaces found. Download some Twitter Spaces to get started!">>)
           ELSE Return(s, <<"Found ", ToString(Len(spaces)), " spaces:\n\n">>
                          \o SpacesText(s, spaces, 1))

\* makeApiRequest returned r: the code after the await that called it
AfterApi(s, r) ==
  CASE s.stage \in PollStages -> PollTick(s, r)
    [] s.stage = "check" /\ s.call.name = "check_space_availability" -> AfterCheck(s, r)
    [] s.stage = "check" -> AfterAvailability(s, r)
    [] s.stage = "download" -> AfterDownloadStart(s, r)
    [] s.stage = "transcribe" -> AfterTranscribeStart(s, r)
    [] OTHER -> AfterSpaces(s, r)

\* variant: a poll that takes a failed status request as "not ready yet"
AfterApiThrowRetry(s, err) ==
  IF s.stage \in PollStages THEN Sleep(s) ELSE Throw(s, err)

\* makeApiRequest threw: inside pollForCompletion the error leaves the poll
AfterApiThrow(s, err) ==
  IF s.stage \in PollStages THEN PollThrow(s, "RequestError", err) ELSE Throw(s, err)

\* variant: makeApiRequest sends the request a second time after a first failure
ApiSettleRetryOnce(s, o) ==
  LET s1 == ClearTimeout([s EXCEPT !.inflight = @ - 1, !.lastSettle = o.kind,
                                   !.lastBody = IF o.kind = "ok" THEN o.body ELSE @])
  IN  IF o.kind = "ok" THEN AfterApi(s1, o.body)
      ELSE IF s.lastSettle \in {"ok", "none"} THEN Fetch(s1, s.stage, s.lastReq)
      ELSE AfterApiThrow(s1, ApiError(o))

\* variant: makeApiRequest without the clearTimeout of its catch
ApiSettleNoCatchClear(s, o) ==
  LET s0 == [s EXCEPT !.inflight = @ - 1, !.lastSettle = o.kind,
                      !.lastBody = IF o.kind = "ok" THEN o.body ELSE @]
      s1 == IF o.kind \in {"ok", "http", "badjson"} THEN ClearTimeout(s0) ELSE s0
  IN  IF o.kind = "ok" THEN AfterApi(s1, o.body) ELSE AfterApiThrow(s1, ApiError(o))

\* makeApiRequest once its fetch has settled with outcome o: the timer is
\* cleared (after the await, and again in the catch), then return or throw
ApiSettle(s, o) ==
  LET s1 == ClearTimeout([s EXCEPT !.inflight = @ - 1, !.lastSettle = o.kind,
                                   !.lastBody = IF o.kind = "ok" THEN o.body ELSE @])
  IN  IF o.kind = "ok" THEN AfterApi(s1, o.body) ELSE AfterApiThrow(s1, ApiError(o))

\* get_transcript once its own fetch has settled: clearTimeout runs only when
\* fetch resolved; a rejection goes straight to the catch of handleCallTool
TranscriptSettle(s, o) ==
  LET s0 == [s EXCEPT !.inflight = @ - 1, !.lastSettle = o.kind]
      format == IF s.call.format = U THEN "paragraphs" ELSE s.call.format
  IN  CASE o.kind = "ok" ->
             Return(ClearTimeout(s0),
                    <<"Transcript for space ", s.call.space_id, " (", format,
                      " format):\n\n", o.text>>)
        [] o.kind = "http" ->
             Throw(ClearTimeout(s0), Err("RequestError", <<"HTTP ", o.status, ": ", o.text>>))
        [] o.kind = "abort" ->
             Throw(s0, Err("RequestError", <<"This operation was aborted">>))
        [] OTHER ->
             Throw(s0, Err("RequestError", <<"fetch failed">>))

(***************************************************************************)
(* Tool handlers: from the call to the first await.                        *)
(***************************************************************************)
\* const { ... } = args with args undefined
NoArgs == Err("TypeError", <<"Cannot destructure property of 'args' as it is undefined.">>)

\* space_url.match(...) on a value that is no string
NoMatchMethod(v) ==
  IF v.t = "undefined"
  THEN Err("TypeError", <<"Cannot read properties of undefined (reading 'match')">>)
  ELSE Err("TypeError", <<"space_url.match is not a function">>)

InvalidUrl == Err("InvalidInput", <<"Invalid space URL format">>)

\* variant: check_space_availability without the test of the URL format
CheckSpaceAvailabilityNoUrlTest(s) ==
  LET v == s.call.space_url
  IN  IF s.call.args = U THEN Throw(s, NoArgs)
      ELSE IF v.t # "string" THEN Throw(s, NoMatchMethod(v))
      ELSE MakeApiRequest(s, "check", Req("GET", "check", SpaceIdMatch(v.s), <<>>))

CheckSpaceAvailability(s) ==
  LET v == s.call.space_url
  IN  IF s.call.args = U THEN Throw(s, NoArgs)
      ELSE IF v.t # "string" THEN Throw(s, NoMatchMethod(v))
      ELSE IF SpaceIdMatch(v.s) = NoMatch THEN Throw(s, InvalidUrl)
      ELSE MakeApiRequest(s, "check", Req("GET", "check", SpaceIdMatch(v.s), <<>>))

DownloadTwitterSpace(s) ==
  IF s.call.args = U THEN Throw(s, NoArgs)
  ELSE MakeApiRequest(s, "download",
         Req("POST", "download", <<>>, JsonBody("space_url", Interp(s.call.space_url))))

TranscribeSpace(s) ==
  IF s.call.args = U THEN Throw(s, NoArgs)
  ELSE MakeApiRequest(s, "transcribe",
         Req("POST", "transcribe", <<>>, JsonBody("space_id", <<s.call.space_id>>)))

\* variant: get_transcript checks format against the enum of its schema first
GetTranscriptValidates(s) ==
  IF s.call.args = U THEN Throw(s, NoArgs)
  ELSE IF s.call.format \notin {U, "json", "txt", "paragraphs", "timecoded", "summary"}
  THEN Throw(s, Err("InvalidInput", <<"Invalid format: ", s.call.format>>))
  ELSE Fetch(s, "transcript",
         Req("GET", "transcript",
             <<s.call.space_id, "/download/",
               IF s.call.format = U THEN "paragraphs" ELSE s.call.format>>, <<>>))

GetTranscript(s) ==
  IF s.call.args = U THEN Throw(s, NoArgs)
  ELSE Fetch(s, "transcript",
         Req("GET", "transcript",
             <<s.call.space_id, "/download/",
               IF s.call.format = U THEN "paragraphs" ELSE s.call.format>>, <<>>))

ListSpaces(s) == MakeApiRequest(s, "spaces", Req("GET", "spaces", <<>>, <<>>))

DownloadAndTranscribeSpace(s) ==
  LET v == s.call.space_url
      s1 == [s EXCEPT !.acc = <<"Starting complete process for ">> \o Interp(v) \o <<"\n\n">>]
  IN  IF s.call.args = U THEN Throw(s, NoArgs)
      ELSE IF v.t # "string" THEN Throw(s1, NoMatchMethod(v))
      ELSE IF SpaceIdMatch(v.s) = NoMatch THEN Throw(s1, InvalidUrl)
      ELSE MakeApiRequest([s1 EXCEPT !.acc = @ \o <<"1. Checking space availability...\n">>],
                          "check", Req("GET", "check", SpaceIdMatch(v.s), <<>>))

\* const { name, arguments: args } = params stands before the try: with params
\* undefined its TypeError leaves handleCallTool
NoParams == <<"Cannot destructure property 'name' of 'params' as it is undefined.">>

HandleCallTool(s) ==
  IF s.call.params = U THEN McpError(s, InternalError, NoParams, "TypeError")
  ELSE CASE s.call.name = "check_space_availability" -> CheckSpaceAvailability(s)
         [] s.call.name = "download_twitter_space" -> DownloadTwitterSpace(s)
         [] s.call.name = "transcribe_space" -> TranscribeSpace(s)
         [] s.call.name = "get_transcript" -> GetTranscript(s)
         [] s.call.name = "list_spaces" -> ListSpaces(s)
         [] s.call.name = "download_and_transcribe_space" -> DownloadAndTranscribeSpace(s)
         [] OTHER -> Throw(s, Err("UnknownTool", <<"Unknown tool: ", s.call.name>>))

\* the parameter list ({ space_url }, config) of a registered handler is bound
\* before its try: with no arguments object the TypeError leaves the handler
Reject(s, err) ==
  [s EXCEPT !.pc = "done", !.stage = "none",
            !.response = [kind |-> "thrown", code |-> 0, content |-> "none",
                          text |-> err.msg, thrown |-> err.kind, tools |-> <<>>]]

\* the handlers registered with server.tool, called by name with the arguments
\* and the config; makeApiRequest and pollForCompletion are the same code in
\* both files, and so is each handler between its try and its catch
ServerTool(s) ==
  IF s.call.args = U THEN Reject(s, NoArgs)
  ELSE CASE s.call.name = "check_space_availability" -> CheckSpaceAvailability(s)
         [] s.call.name = "download_twitter_space" -> DownloadTwitterSpace(s)
         [] s.call.name = "transcribe_space" -> TranscribeSpace(s)
         [] s.call.name = "get_transcript" -> GetTranscript(s)
         [] s.call.name = "list_spaces" -> ListSpaces(s)
         [] OTHER -> DownloadAndTranscribeSpace(s)

\* variant: tools/list answers an empty list as long as no apiUrl is configured
HandleMcpRequestListNeedsConfig(s) ==
  CASE s.call.method = "initialize" ->
         [s EXCEPT !.pc = "done",
                   !.response = [NoResponse EXCEPT !.kind = "result", !.content = "initialize"]]
    [] s.call.method = "tools/list" ->
         [s EXCEPT !.pc = "done",
                   !.response = [NoResponse EXCEPT !.kind = "result", !.content = "tools",
                                                   !.tools = IF s.call.query.apiUrl = U
                                                             THEN <<>> ELSE tools]]
    [] s.call.method = "tools/call" -> HandleCallTool(s)
    [] OTHER ->
         McpError(s, MethodNotFound, <<"Method not found: ", s.call.method>>, "none")

\* variant: a method that is not known goes to the catch of handleMcpRequest
HandleMcpRequestNoDefault(s) ==
  CASE s.call.method = "initialize" ->
         [s EXCEPT !.pc = "done",
                   !.response = [NoResponse EXCEPT !.kind = "result", !.content = "initialize"]]
    [] s.call.method = "tools/list" ->
         [s EXCEPT !.pc = "done",
                   !.response = [NoResponse EXCEPT !.kind = "result", !.content = "tools",
                                                   !.tools = tools]]
    [] s.call.method = "tools/call" -> HandleCallTool(s)
    [] OTHER ->
         McpError(s, InternalError, <<"Method not found: ", s.call.method>>, "none")

HandleMcpRequest(s) ==
  CASE s.call.method = "initialize" ->
         [s EXCEPT !.pc = "done",
                   !.response = [NoResponse EXCEPT !.kind = "result", !.content = "initialize"]]
    [] s.call.method = "tools/list" ->
         [s EXCEPT !.pc = "done",
                   !.response = [NoResponse EXCEPT !.kind = "result", !.content = "tools",
                                                   !.tools = tools]]
    [] s.call.method = "tools/call" -> HandleCallTool(s)
    [] OTHER ->
         McpError(s, MethodNotFound, <<"Method not found: ", s.call.method>>, "none")

(***************************************************************************)
(* Inputs: the JSON-RPC requests and the direct calls of the poller.       *)
(***************************************************************************)
ToolNames ==
  { "check_space_availability", "download_twitter_space", "transcribe_space",
    "get_transcript", "list_spaces", "download_and_transcribe_space" }

McpCall(method) == [NoCall EXCEPT !.op = "mcp", !.method = method]

ToolCall(name) ==
  [NoCall EXCEPT !.op = "mcp", !.method = "tools/call", !.params = "object",
                 !.name = name, !.args = "object"]

WaitValues == {U, "true", "false", "null"}

\* ?timeout=... as it can come with a request
TimeoutQueries ==
  { [NoQuery EXCEPT !.timeout = JsString(cs)] :
      cs \in { <<>>, <<"0">>, <<"a", "b", "c">>, <<"-", "5">>, <<"6", "0">>, <<"4", "5", "s">>,
               <<"+", "7">>, <<"-">> } }
  \cup {NoQuery}

ToolCalls ==
  { [ToolCall(n) EXCEPT !.args = U] : n \in ToolNames }
  \cup { ToolCall("list_spaces"), ToolCall("no_such_tool"), ToolCall(U) }
  \cup { [ToolCall("check_space_availability") EXCEPT !.space_url = v] : v \in UrlValues }
  \cup { [ToolCall("download_and_transcribe_space") EXCEPT !.space_url = v] :
           v \in WorkflowUrlValues }
  \cup { [ToolCall("download_twitter_space") EXCEPT !.space_url = v, !.wait = w] :
           v \in OpaqueUrlValues, w \in WaitValues }
  \cup { [ToolCall("transcribe_space") EXCEPT !.space_id = i, !.wait = w] :
           i \in {U, "sA"}, w \in WaitValues }
  \cup { [ToolCall("get_transcript") EXCEPT !.space_id = i, !.format = f] :
           i \in {U, "sA"}, f \in {U, "json", "summary", "xml"} }
  \cup { [ToolCall(n) EXCEPT !.space_id = "sA", !.query = q] :
           n \in {"list_spaces", "get_transcript"}, q \in TimeoutQueries }

Queries == {NoQuery, SomeQuery}

McpCalls ==
  { McpCall(m) : m \in {"initialize", "tools/list", "tools/call", "ping", U} }
  \cup { [McpCall("tools/list") EXCEPT !.query = SomeQuery] }
  \cup ToolCalls

Intervals == {DefaultIntervalMs, TranscribeIntervalMs, 0}

(***************************************************************************)
(* Actions.                                                                *)
(***************************************************************************)
\* POST /mcp: handleMcpRequest(req.body, config)
Receive(i, c) ==
  /\ inv[i].pc = "idle"
  /\ inv' = [inv EXCEPT ![i] = HandleMcpRequest([inv[i] EXCEPT !.call = c])]
  /\ UNCHANGED tools

\* GET /mcp: the server info and TOOLS, without handleMcpRequest
Discover(i, q) ==
  /\ inv[i].pc = "idle"
  /\ inv' = [inv EXCEPT ![i] =
               [inv[i] EXCEPT !.pc = "done",
                              !.call = [NoCall EXCEPT !.op = "get", !.query = q],
                              !.response = [NoResponse EXCEPT !.kind = "json",
                                                              !.content = "discovery",
                                                              !.tools = tools]]]
  /\ UNCHANGED tools

\* a direct call pollForCompletion(statusUrl, config, ['completed'], ['failed'], n, ms)
PollDirect(i, n, ms) ==
  /\ inv[i].pc = "idle"
  /\ inv' = [inv EXCEPT ![i] =
               StartPoll([inv[i] EXCEPT !.call = [NoCall EXCEPT !.op = "poll"]],
                         "poll", Req("GET", "status", <<"d1">>, <<>>), n, ms)]
  /\ UNCHANGED tools

\* the fetch in flight settles: a response arrives, or the network fails
FetchSettles(i, o) ==
  /\ inv[i].pc = "fetch"
  /\ inv' = [inv EXCEPT ![i] =
               IF inv[i].stage = "transcript" THEN TranscriptSettle(inv[i], o)
               ELSE ApiSettle(inv[i], o)]
  /\ UNCHANGED tools

\* the timeout timer fires first: controller.abort() makes the fetch reject
TimeoutFires(i) ==
  /\ inv[i].pc = "fetch"
  /\ LET s1 == [inv[i] EXCEPT !.timers = @ - 1]
         o == Outcome("abort", EmptyObj, "0", "")
     IN  inv' = [inv EXCEPT ![i] =
                   IF s1.stage = "transcript" THEN TranscriptSettle(s1, o)
                   ELSE ApiSettle(s1, o)]
  /\ UNCHANGED tools

\* a timer still pending after the call returned fires: abort() of a settled fetch
LateTimerFires(i) ==
  /\ inv[i].pc = "done"
  /\ inv[i].timers > 0
  /\ inv' = [inv EXCEPT ![i].timers = @ - 1]
  /\ UNCHANGED tools

\* variant: the attempt counter is a module-level variable shared by all invocations
SleepEndsSharedAttempt(i) ==
  /\ inv[i].pc = "sleep"
  /\ inv' = [inv EXCEPT ![i] =
               PollLoop([inv[i] EXCEPT !.pc = "fetch",
                                       !.attempt = Max({ inv[j].attempt : j \in DOMAIN inv }) + 1])]
  /\ UNCHANGED tools

\* the poll sleep ends: attempt++ and the loop test
SleepEnds(i) ==
  /\ inv[i].pc = "sleep"
  /\ inv' = [inv EXCEPT ![i] = PollLoop([inv[i] EXCEPT !.pc = "fetch", !.attempt = @ + 1])]
  /\ UNCHANGED tools

Invocations == {"i1"}

Init ==
  /\ inv = [i \in Invocations |-> Idle]
  /\ tools = TOOLS

Next ==
  \/ \E i \in DOMAIN inv, c \in McpCalls : Receive(i, c)
  \/ \E i \in DOMAIN inv, q \in Queries : Discover(i, q)
  \/ \E i \in DOMAIN inv, n \in 0..MaxDirectAttempts, ms \in Intervals : PollDirect(i, n, ms)
  \/ \E i \in DOMAIN inv : \E o \in Outcomes(inv[i].lastReq.ep) : FetchSettles(i, o)
  \/ \E i \in DOMAIN inv : TimeoutFires(i)
  \/ \E i \in DOMAIN inv : LateTimerFires(i)
  \/ \E i \in DOMAIN inv : SleepEnds(i)

Spec == Init /\ [][Next]_vars

\* every request in flight settles: a response or a network error arrives, or
\* the timeout timer aborts it
Settles ==
  \E i \in DOMAIN inv :
    \/ \E o \in Outcomes(inv[i].lastReq.ep) : FetchSettles(i, o)
    \/ TimeoutFires(i)

\* Spec with requests that settle and sleep timers that fire
FairSpec ==
  /\ Spec
  /\ WF_vars(Settles)
  /\ WF_vars(\E i \in DOMAIN inv : SleepEnds(i))

(***************************************************************************)
(* Two invocations at once: two POST /mcp requests whose handlers are      *)
(* interleaved at their awaits.  The calls and the backend answers are a   *)
(* part of those of Spec.                                                  *)
(***************************************************************************)
Invocations2 == {"i1", "i2"}

Calls2 ==
  { McpCall("tools/list"),
    [McpCall("tools/list") EXCEPT !.query = SomeQuery],
    ToolCall("list_spaces"),
    [ToolCall("get_transcript") EXCEPT !.space_id = "sA"],
    [ToolCall("check_space_availability") EXCEPT !.space_url = JsString(SampleUrl)],
    [ToolCall("download_twitter_space") EXCEPT !.space_url = JsString(SampleUrl)],
    [ToolCall("download_twitter_space") EXCEPT !.space_url = JsString(SampleUrl),
                                               !.wait = "false"] }

Outcomes2(ep) ==
  CASE ep = "status" ->
         { Outcome("ok", [EmptyObj EXCEPT !.status = "processing", !.message = "working"], "200", ""),
           Outcome("ok", [EmptyObj EXCEPT !.status = "completed", !.space_id = "sA",
                                          !.filename = "sA.mp3", !.message = "done"], "200", ""),
           Outcome("ok", [EmptyObj EXCEPT !.status = "failed", !.error = "E1",
                                          !.message = "no luck"], "200", "") }
    [] ep = "download" ->
         { Outcome("ok", [EmptyObj EXCEPT !.download_id = "d1", !.status = "started",
                                          !.message = "queued"], "200", ""),
           Outcome("ok", JsonNull, "200", ""),
           Outcome("http", EmptyObj, "500", "boom") }
    [] OTHER -> Outcomes(ep)

Init2 ==
  /\ inv = [i \in Invocations2 |-> Idle]
  /\ tools = TOOLS

Next2 ==
  \/ \E i \in DOMAIN inv, c \in Calls2 : Receive(i, c)
  \/ \E i \in DOMAIN inv, q \in Queries : Discover(i, q)
  \/ \E i \in DOMAIN inv : PollDirect(i, 2, DefaultIntervalMs)
  \/ \E i \in DOMAIN inv : \E o \in Outcomes2(inv[i].lastReq.ep) : FetchSettles(i, o)
  \/ \E i \in DOMAIN inv : TimeoutFires(i)
  \/ \E i \in DOMAIN inv : LateTimerFires(i)
  \/ \E i \in DOMAIN inv : SleepEnds(i)

Spec2 == Init2 /\ [][Next2]_vars

(***************************************************************************)
(* The two adapters side by side: the same tool call handed to             *)
(* handleCallTool (invocation "route") and to the handler registered with  *)
(* server.tool (invocation "tool"), and the same backend answers, timer    *)
(* firings and ends of sleeps handed to both.                              *)
(***************************************************************************)
Invocations3 == {"route", "tool"}

\* the calls both adapters can take: a registered tool, the default config
Calls3 == { c \in ToolCalls : c.name \in ToolNames /\ c.query = NoQuery }

\* the code that runs when the fetch of s settles with outcome o
Settle(s, o) ==
  IF s.pc # "fetch" THEN s
  ELSE IF s.stage = "transcript" THEN TranscriptSettle(s, o)
  ELSE ApiSettle(s, o)

\* tools/call with params c on the /mcp route, and the registered handler of
\* c.name called with c.arguments
ReceiveBoth(c) ==
  /\ \A i \in DOMAIN inv : inv[i].pc = "idle"
  /\ inv' = [i \in DOMAIN inv |->
               IF i = "tool" THEN ServerTool([inv[i] EXCEPT !.call = [c EXCEPT !.op = "tool"]])
               ELSE HandleMcpRequest([inv[i] EXCEPT !.call = c])]
  /\ UNCHANGED tools

\* the backend gives answer o to the request each adapter has in flight
FetchSettlesBoth(o) ==
  /\ \E i \in DOMAIN inv : inv[i].pc = "fetch" /\ o \in Outcomes(inv[i].lastReq.ep)
  /\ inv' = [i \in DOMAIN inv |-> Settle(inv[i], o)]
  /\ UNCHANGED tools

\* the timeout timers fire before an answer: the fetch in flight rejects
TimeoutFiresBoth ==
  /\ \E i \in DOMAIN inv : inv[i].pc = "fetch"
  /\ inv' = [i \in DOMAIN inv |->
               IF inv[i].pc = "fetch"
               THEN Settle([inv[i] EXCEPT !.timers = @ - 1], Outcome("abort", EmptyObj, "0", ""))
               ELSE inv[i]]
  /\ UNCHANGED tools

\* the timers still pending after the calls returned fire
LateTimerFiresBoth ==
  /\ \E i \in DOMAIN inv : inv[i].pc = "done" /\ inv[i].timers > 0
  /\ inv' = [i \in DOMAIN inv |->
               IF inv[i].pc = "done" /\ inv[i].timers > 0
               THEN [inv[i] EXCEPT !.timers = @ - 1] ELSE inv[i]]
  /\ UNCHANGED tools

\* the poll sleeps end: attempt++ and the loop test
SleepEndsBoth ==
  /\ \E i \in DOMAIN inv : inv[i].pc = "sleep"
  /\ inv' = [i \in DOMAIN inv |->
               IF inv[i].pc = "sleep"
               THEN PollLoop([inv[i] EXCEPT !.pc = "fetch", !.attempt = @ + 1])
               ELSE inv[i]]
  /\ UNCHANGED tools

Init3 ==
  /\ inv = [i \in Invocations3 |-> Idle]
  /\ tools = TOOLS

Next3 ==
  \/ \E c \in Calls3 : ReceiveBoth(c)
  \/ \E i \in DOMAIN inv : \E o \in Outcomes(inv[i].lastReq.ep) : FetchSettlesBoth(o)
  \/ TimeoutFiresBoth
  \/ LateTimerFiresBoth
  \/ SleepEndsBoth

Spec3 == Init3 /\ [][Next3]_vars

(***************************************************************************)
(* Properties.                                                             *)
(***************************************************************************)
\* part b follows part a somewhere in the text
Contains(text, a, b) == \E k \in 1..(Len(text) - 1) : text[k] = a /\ text[k + 1] = b

Mentions(text, a) == \E k \in 1..Len(text) : text[k] = a

IsToolCall(s, name) ==
  /\ s.call.op = "mcp" /\ s.call.method = "tools/call"
  /\ s.call.params # U /\ s.call.name = name

NoBackendCall(s) ==
  /\ \A e \in Endpoints : s.calls[e] = 0
  /\ s.polled = {} /\ s.lastReq = NoReq /\ s.inflight = 0

\* the status of a snapshot that was read as an object
ReadStatus(s) == IF s.lastRead.json = "null" THEN U ELSE s.lastRead.status

\* C1: a poll that reads a completed status at its k-th request (k <= maxAttempts)
\* returns that very snapshot, after k requests and k-1 sleeps, every sleep of
\* intervalMs.
C1_CompletedAfterKRequests ==
  \A i \in DOMAIN inv :
    LET s == inv[i]
    IN  (s.pollStage # "none" /\ ReadStatus(s) \in CompletedStatuses) =>
          /\ s.outcome[s.pollStage] = "Completed"
          /\ s.returned = s.lastRead
          /\ s.pollCalls = s.attempt + 1
          /\ s.pollCalls <= s.maxAttempts
          /\ s.sleeps = s.pollCalls - 1
          /\ s.sleepDurs \subseteq {s.intervalMs}
          /\ (s.call.op = "poll" => s.pc = "done" /\ s.response.kind = "returned")

C1_Witness ==
  \E i \in DOMAIN inv :
    /\ inv[i].call.op = "poll"
    /\ inv[i].outcome["poll"] = "Completed"
    /\ inv[i].pollCalls = MaxDirectAttempts
    /\ inv[i].sleeps = MaxDirectAttempts - 1
    /\ inv[i].sleepDurs = {TranscribeIntervalMs}

\* C2: a poll that reads a failed status at its k-th request throws the
\* 'Operation failed' error after exactly k requests and k-1 sleeps; nothing is
\* in flight and no sleep is pending afterwards.
C2_FailedAfterKRequests ==
  \A i \in DOMAIN inv :
    LET s == inv[i]
    IN  (s.pollStage # "none" /\ ReadStatus(s) \in FailedStatuses) =>
          /\ s.outcome[s.pollStage] = "Failed"
          /\ s.pc = "done" /\ s.inflight = 0
          /\ s.pollCalls = s.attempt + 1
          /\ s.sleeps = s.attempt
          /\ s.response.thrown = "OperationFailed"
          /\ Mentions(s.response.text, "Operation failed: ")

C2_Witness ==
  \E i \in DOMAIN inv :
    /\ inv[i].pollStage = "dlpoll"
    /\ inv[i].outcome["dlpoll"] = "Failed"
    /\ inv[i].pollCalls = 3
    /\ inv[i].pc = "done"

\* C3: a poll never makes more than maxAttempts requests; when maxAttempts
\* requests all read non-terminal statuses it throws the timed-out error, which
\* names maxAttempts (maxAttempts = 0 included: no request at all).
C3_TimedOutAfterNRequests ==
  \A i \in DOMAIN inv :
    LET s == inv[i]
    IN  s.pollStage # "none" =>
          /\ s.pollCalls <= s.maxAttempts
          /\ (s.attempt >= s.maxAttempts => s.outcome[s.pollStage] = "TimedOut")
          /\ (s.outcome[s.pollStage] = "TimedOut" =>
                /\ s.pc = "done" /\ s.inflight = 0
                /\ s.pollCalls = s.maxAttempts
                /\ s.response.thrown = "Timeout"
                /\ Contains(s.response.text, "Operation timed out after ",
                            ToString(s.maxAttempts)))

C3_Witness ==
  \E i \in DOMAIN inv :
    /\ IsToolCall(inv[i], "download_twitter_space")
    /\ inv[i].outcome["dlpoll"] = "TimedOut"
    /\ inv[i].pollCalls = DefaultMaxAttempts
    /\ Contains(inv[i].response.text, "Operation timed out after ", "60")

\* C4 as stated: a poll ends Completed, Failed or TimedOut, and in no other way.
C4_OnlyThreeEndings ==
  \A i \in DOMAIN inv :
    inv[i].pollStage # "none" =>
      inv[i].outcome[inv[i].pollStage] \in {"Polling", "Completed", "Failed", "TimedOut"}

\* C4, amended: a poll ends in exactly one of five ways: Completed, Failed,
\* TimedOut, RequestError (a status request failed: the error of makeApiRequest
\* leaves the poll at once, without another request or sleep) or TypeError (the
\* snapshot read was null).
C4_FiveEndings ==
  \A i \in DOMAIN inv :
    LET s == inv[i]
        o == s.outcome[s.pollStage]
    IN  s.pollStage # "none" =>
          /\ o \in {"Polling", "Completed", "Failed", "TimedOut", "RequestError", "TypeError"}
          /\ (o = "Polling" <=> (s.pc \in {"fetch", "sleep"} /\ s.stage = s.pollStage))
          /\ (o = "Completed" => ReadStatus(s) \in CompletedStatuses)
          /\ (o = "Failed" => ReadStatus(s) \in FailedStatuses)
          /\ (o = "TimedOut" => s.attempt = s.maxAttempts)
          /\ (o = "TypeError" => s.lastRead.json = "null" /\ s.pc = "done")
          /\ (o = "RequestError" <=>
                (s.lastReq.ep \in PollEndpoints /\ s.lastSettle \notin {"ok", "none"}))
          /\ (o = "RequestError" =>
                /\ s.pc = "done" /\ s.inflight = 0
                /\ s.response.thrown = "RequestError"
                /\ s.pollCalls = s.attempt + 1 /\ s.sleeps = s.attempt)

C4_Witness ==
  \E i \in DOMAIN inv :
    /\ inv[i].pollStage = "trpoll"
    /\ inv[i].outcome["trpoll"] = "RequestError"
    /\ inv[i].lastSettle = "abort"
    /\ inv[i].pollCalls = 2

\* C5: every tools/call is answered with a result whose content is text, never
\* with a JSON-RPC error object.
C5_ToolCallAnsweredWithText ==
  \A i \in DOMAIN inv :
    (inv[i].call.op = "mcp" /\ inv[i].call.method = "tools/call" /\ inv[i].pc = "done") =>
      (inv[i].response.kind = "result" /\ inv[i].response.content = "text")

\* the string u holds "/spaces/" followed by an alphanumeric character
HasSpaceSegment(u) ==
  \E p \in 1..Len(u), c \in Alnum :
    /\ p + Len(SpacesLit) <= Len(u)
    /\ SubSeq(u, p, p + Len(SpacesLit)) = SpacesLit \o <<c>>

WellFormedUrl(s) == s.call.args # U /\ s.call.space_url.t = "string" /\ HasSpaceSegment(s.call.space_url.s)

\* C6: download_and_transcribe_space with a well-formed URL whose availability
\* check answers a falsy available makes exactly one request, the GET to
\* /api/check-space/{id}, and returns an error text.
C6_UnavailableMakesOneCall ==
  \A i \in DOMAIN inv :
    LET s == inv[i]
    IN  (IsToolCall(s, "download_and_transcribe_space") /\ WellFormedUrl(s) /\ s.available = "no") =>
          /\ s.pc = "done" /\ s.inflight = 0
          /\ s.calls = [e \in Endpoints |-> IF e = "check" THEN 1 ELSE 0]
          /\ s.polled = {} /\ s.pollStage = "none"
          /\ s.lastReq.method = "GET" /\ s.lastReq.ep = "check"
          /\ s.response.kind = "result" /\ s.response.content = "text"
          /\ s.response.thrown = "NotAvailable"
          /\ Contains(s.response.text, "Error: ", "Space not available: ")

C6_Witness ==
  \E i \in DOMAIN inv :
    /\ IsToolCall(inv[i], "download_and_transcribe_space")
    /\ inv[i].available = "no"
    /\ inv[i].response.text = <<"Error: ", "Space not available: ", "gone">>

\* C7: in download_and_transcribe_space the requests go out in the order check,
\* download start, download status polls, transcribe start, transcription status
\* polls, each stage only after the stage before it ended well, one at a time;
\* the success text is returned only after the transcription poll ended Completed.
C7_StagesInOrder ==
  \A i \in DOMAIN inv :
    LET s == inv[i]
    IN  IsToolCall(s, "download_and_transcribe_space") =>
          /\ \A e \in Endpoints : s.calls[e] <= 1
          /\ s.inflight <= 1
          /\ (s.calls["download"] > 0 => s.calls["check"] = 1 /\ s.available = "yes")
          /\ ("status" \in s.polled =>
                s.calls["download"] = 1 /\ s.outcome["dlpoll"] # "none")
          /\ (s.stage = "dlpoll" => s.lastReq.ep = "status")
          /\ (s.calls["transcribe"] > 0 =>
                "status" \in s.polled /\ s.outcome["dlpoll"] = "Completed")
          /\ ("trstatus" \in s.polled =>
                s.calls["transcribe"] = 1 /\ s.outcome["trpoll"] # "none")
          /\ (s.stage = "trpoll" => s.lastReq.ep = "trstatus")
          /\ ((s.pc = "done" /\ s.response.thrown = "none") =>
                /\ s.outcome["trpoll"] = "Completed"
                /\ Mentions(s.response.text, " Transcription completed\n\n"))

C7_Witness ==
  \E i \in DOMAIN inv :
    /\ IsToolCall(inv[i], "download_and_transcribe_space")
    /\ inv[i].pc = "done" /\ inv[i].response.thrown = "none"
    /\ inv[i].outcome["trpoll"] = "Completed"
    /\ inv[i].pollCalls = 2

\* C8: in download_and_transcribe_space a stage that fails ends the call: no
\* request follows the failing one, and the text returned is the error of that
\* stage.
C8_FailureAbortsWorkflow ==
  \A i \in DOMAIN inv :
    LET s == inv[i]
        text == s.response.text
    IN  IsToolCall(s, "download_and_transcribe_space") =>
          \* a request that failed is the last one, and its error is the text
          /\ (s.lastSettle \notin {"ok", "none"} =>
                /\ s.pc = "done" /\ s.inflight = 0
                /\ s.response.thrown = "RequestError"
                /\ Contains(text, "Error: ", "API request failed: "))
          \* a download poll that did not end Completed ends the call
          /\ (s.outcome["dlpoll"] \in {"Failed", "TimedOut", "RequestError", "TypeError"} =>
                /\ s.pc = "done" /\ s.inflight = 0
                /\ s.lastReq.ep \in {"download", "status"}
                /\ s.calls["transcribe"] = 0 /\ "trstatus" \notin s.polled)
          /\ (s.outcome["trpoll"] \in {"Failed", "TimedOut", "RequestError", "TypeError"} =>
                s.pc = "done" /\ s.inflight = 0 /\ s.lastReq.ep \in {"transcribe", "trstatus"})
          /\ \A p \in {"dlpoll", "trpoll"} :
               /\ (s.pollStage = p /\ s.outcome[p] = "Failed" =>
                     text = <<"Error: ", "Operation failed: ",
                              Or(s.lastRead.error, s.lastRead.message)>>)
               /\ (s.pollStage = p /\ s.outcome[p] = "TimedOut" =>
                     text = <<"Error: ", "Operation timed out after ",
                              ToString(s.maxAttempts), " attempts">>)
          \* a start request that failed leaves the later stages untouched
          /\ ((s.response.thrown # "none" /\ s.lastReq.ep = "check") =>
                s.calls["download"] = 0 /\ s.polled = {} /\ s.calls["transcribe"] = 0)
          /\ ((s.response.thrown # "none" /\ s.lastReq.ep = "download") =>
                s.polled = {} /\ s.calls["transcribe"] = 0)
          /\ ((s.response.thrown # "none" /\ s.lastReq.ep = "transcribe") =>
                "trstatus" \notin s.polled)
          /\ (s.response.thrown # "none" =>
                s.pc = "done" /\ s.response.kind = "result" /\ text[1] = "Error: ")

C8_Witness ==
  \E i \in DOMAIN inv :
    /\ IsToolCall(inv[i], "download_and_transcribe_space")
    /\ inv[i].outcome["dlpoll"] = "Failed"
    /\ inv[i].pollCalls = 2
    /\ inv[i].response.text = <<"Error: ", "Operation failed: ", "E1">>
    /\ inv[i].calls["transcribe"] = 0

\* C9: check_space_availability and download_and_transcribe_space, given a
\* string without "/spaces/" followed by an alphanumeric character, answer the
\* invalid-URL error and make no request.
C9_InvalidUrlMakesNoCall ==
  \A i \in DOMAIN inv :
    LET s == inv[i]
    IN  ( /\ (IsToolCall(s, "check_space_availability")
                \/ IsToolCall(s, "download_and_transcribe_space"))
          /\ s.call.args # U /\ s.call.space_url.t = "string"
          /\ ~HasSpaceSegment(s.call.space_url.s) ) =>
          /\ s.pc = "done"
          /\ NoBackendCall(s)
          /\ s.timers = 0
          /\ s.response.kind = "result"
          /\ s.response.text = <<"Error: ", "Invalid space URL format">>

C9_Witness ==
  \E i \in DOMAIN inv :
    /\ IsToolCall(inv[i], "download_and_transcribe_space")
    /\ inv[i].call.space_url = JsString(SpacesLit \o SpacesLit \o <<"-">>)
    /\ inv[i].response.text = <<"Error: ", "Invalid space URL format">>

\* C10: download_twitter_space with wait_for_completion false makes one request,
\* the POST to /api/download, and returns the download id and the initial
\* status; with true or omitted it polls /api/status/{download_id} with 60
\* attempts of 5000 ms and, when the poll ends Completed, the text holds the
\* space id and the filename of the snapshot returned.
C10_DownloadWaitOrNot ==
  \A i \in DOMAIN inv :
    LET s == inv[i]
        text == s.response.text
        ok == s.pc = "done" /\ s.response.thrown = "none"
    IN  (IsToolCall(s, "download_twitter_space") /\ s.call.args # U) =>
          /\ s.calls = [e \in Endpoints |-> IF e = "download" THEN 1 ELSE 0]
          /\ s.polled \subseteq {"status"}
          /\ (s.call.wait = "false" =>
                /\ s.polled = {} /\ s.pollStage = "none" /\ s.pollCalls = 0 /\ s.sleeps = 0
                /\ s.lastReq.method = "POST" /\ s.lastReq.ep = "download"
                /\ (ok => \E r \in DownloadBodies :
                            /\ text = DownloadStartedText(s, r)
                            /\ Contains(text, "Download ID: ", r.download_id)
                            /\ Contains(text, "Status: ", r.status)))
          /\ (s.call.wait \in {"true", U} =>
                /\ (s.acc # <<>> => s.pollStage = "dlpoll" /\ "status" \in s.polled)
                /\ (s.pollStage # "none" =>
                      /\ s.pollStage = "dlpoll"
                      /\ s.maxAttempts = 60 /\ s.intervalMs = 5000
                      /\ s.pollCalls <= 60 /\ s.sleepDurs \subseteq {5000}
                      /\ s.statusUrl.method = "GET" /\ s.statusUrl.ep = "status"
                      /\ Contains(s.acc, "Download ID: ", s.statusUrl.id[1]))
                /\ (ok =>
                      /\ s.outcome["dlpoll"] = "Completed"
                      /\ Contains(text, "Space ID: ", s.returned.space_id)
                      /\ Contains(text, "Filename: ", s.returned.filename)))

C10_Witness ==
  \E i \in DOMAIN inv :
    /\ IsToolCall(inv[i], "download_twitter_space")
    /\ inv[i].call.wait = U
    /\ inv[i].outcome["dlpoll"] = "Completed"
    /\ inv[i].pollCalls = 2 /\ inv[i].sleeps = 1
    /\ Contains(inv[i].response.text, "Space ID: ", "sA")
    /\ Contains(inv[i].response.text, "Filename: ", "sA.mp3")

\* C11: transcribe_space with wait_for_completion false makes one request, the
\* POST to /api/transcribe, and no status request; with true or omitted it polls
\* /api/transcription/status/{transcription_id} with 120 attempts of 10000 ms;
\* the transcription stage of download_and_transcribe_space polls with the same
\* 120 attempts of 10000 ms.
C11_TranscribeWaitOrNot ==
  \A i \in DOMAIN inv :
    LET s == inv[i]
        budget == /\ s.maxAttempts = 120 /\ s.intervalMs = 10000
                  /\ s.pollCalls <= 120 /\ s.sleeps <= 120 /\ s.sleepDurs \subseteq {10000}
                  /\ s.statusUrl.method = "GET" /\ s.statusUrl.ep = "trstatus"
                  /\ Contains(s.acc, IF s.call.name = "transcribe_space"
                                      THEN "Transcription ID: " ELSE "   Transcription ID: ",
                              s.statusUrl.id[1])
    IN  /\ (IsToolCall(s, "transcribe_space") /\ s.call.args # U) =>
              /\ s.calls = [e \in Endpoints |-> IF e = "transcribe" THEN 1 ELSE 0]
              /\ s.polled \subseteq {"trstatus"}
              /\ (s.call.wait = "false" =>
                    /\ s.polled = {} /\ s.pollStage = "none" /\ s.pollCalls = 0 /\ s.sleeps = 0
                    /\ s.lastReq.method = "POST" /\ s.lastReq.ep = "transcribe"
                    /\ ((s.pc = "done" /\ s.response.thrown = "none") =>
                          \E r \in TranscribeBodies : s.response.text = TranscribeStartedText(s, r)))
              /\ (s.call.wait \in {"true", U} =>
                    /\ (s.acc # <<>> => s.pollStage = "trpoll" /\ "trstatus" \in s.polled)
                    /\ (s.pollStage # "none" => s.pollStage = "trpoll" /\ budget)
                    /\ ((s.pc = "done" /\ s.response.thrown = "none") =>
                          s.outcome["trpoll"] = "Completed"))
        /\ (IsToolCall(s, "download_and_transcribe_space") /\ s.pollStage = "trpoll") => budget

C11_Witness ==
  \E i \in DOMAIN inv :
    /\ IsToolCall(inv[i], "transcribe_space")
    /\ inv[i].call.wait = U
    /\ inv[i].outcome["trpoll"] = "TimedOut"
    /\ inv[i].pollCalls = TranscribeMaxAttempts
    /\ inv[i].sleepDurs = {TranscribeIntervalMs}
    /\ Contains(inv[i].response.text, "Operation timed out after ", "120")

\* C12: in download_and_transcribe_space the body of the POST to
\* /api/transcribe holds the space_id field of the snapshot the download poll
\* returned (the completed one), not the id extracted from the URL; a snapshot
\* without a space_id gives a body without one.
C12_TranscribeCarriesDownloadId ==
  \A i \in DOMAIN inv :
    LET s == inv[i]
    IN  (IsToolCall(s, "download_and_transcribe_space") /\ s.calls["transcribe"] > 0) =>
          /\ s.outcome["dlpoll"] = "Completed"
          /\ s.downloadStatus.status \in CompletedStatuses
          /\ s.downloadStatus \in CompletedSnapshots
          /\ (s.lastReq.ep = "transcribe" =>
                /\ s.lastReq.method = "POST"
                /\ s.downloadStatus = s.returned /\ s.returned = s.lastRead
                /\ s.lastReq.body =
                     ( IF s.downloadStatus.space_id = U THEN <<"{}">>
                       ELSE <<"space_id", s.downloadStatus.space_id>> ))
          /\ ((s.pc = "done" /\ s.response.thrown = "none") =>
                Contains(s.response.text, " Complete! Space ", s.downloadStatus.space_id))

C12_Witness ==
  \E i \in DOMAIN inv :
    /\ IsToolCall(inv[i], "download_and_transcribe_space")
    /\ SpaceIdMatch(inv[i].call.space_url.s) = <<"1", "Z">>
    /\ inv[i].lastReq.ep = "transcribe"
    /\ inv[i].lastReq.body = <<"space_id", "sB">>
    /\ inv[i].pollCalls = 2

\* C13: within one invocation at most one request is in flight: a request is
\* in flight exactly while the invocation awaits its fetch, none while a poll
\* sleep is pending, before the call or after it ended.
C13_OneRequestInFlight ==
  \A i \in DOMAIN inv :
    LET s == inv[i]
    IN  /\ s.inflight \in {0, 1}
        /\ (s.inflight = 1 <=> s.pc = "fetch")
        /\ (s.pc = "fetch" => s.stage = (IF s.lastReq.ep = "status" /\ s.call.op = "poll" THEN "poll"
                                          ELSE IF s.lastReq.ep = "status" THEN "dlpoll"
                                          ELSE IF s.lastReq.ep = "trstatus" THEN "trpoll"
                                          ELSE s.lastReq.ep))
        /\ (s.pc = "sleep" => s.inflight = 0 /\ s.stage \in PollStages /\ s.lastSettle = "ok")
        /\ (s.pc \in {"idle", "done"} => s.inflight = 0)

C13_Witness ==
  \E i \in DOMAIN inv :
    /\ IsToolCall(inv[i], "download_and_transcribe_space")
    /\ inv[i].stage = "trpoll" /\ inv[i].pc = "fetch"
    /\ inv[i].pollCalls = 3 /\ inv[i].sleeps = 2
    /\ inv[i].inflight = 1
    /\ \A e \in {"check", "download", "transcribe"} : inv[i].calls[e] = 1

\* what one invocation in state s can do next when it runs alone: the handlers
\* applied to its own record, with every call and every backend answer of Spec
Successors(s) ==
  CASE s.pc = "idle" ->
         { HandleMcpRequest([s EXCEPT !.call = c]) : c \in McpCalls }
         \cup { [s EXCEPT !.pc = "done",
                          !.call = [NoCall EXCEPT !.op = "get", !.query = q],
                          !.response = [NoResponse EXCEPT !.kind = "json",
                                                          !.content = "discovery",
                                                          !.tools = TOOLS]] : q \in Queries }
         \cup { StartPoll([s EXCEPT !.call = [NoCall EXCEPT !.op = "poll"]], "poll",
                          Req("GET", "status", <<"d1">>, <<>>), n, ms) :
                  n \in 0..MaxDirectAttempts, ms \in Intervals }
    [] s.pc = "fetch" ->
         { (IF s.stage = "transcript" THEN TranscriptSettle(s, o) ELSE ApiSettle(s, o)) :
             o \in Outcomes(s.lastReq.ep) }
         \cup { LET s1 == [s EXCEPT !.timers = @ - 1]
                    o == Outcome("abort", EmptyObj, "0", "")
                IN  IF s.stage = "transcript" THEN TranscriptSettle(s1, o) ELSE ApiSettle(s1, o) }
    [] s.pc = "sleep" -> { PollLoop([s EXCEPT !.pc = "fetch", !.attempt = @ + 1]) }
    [] OTHER -> IF s.timers > 0 THEN { [s EXCEPT !.timers = @ - 1] } ELSE {}

\* C14: two invocations interleaved at their awaits are independent: every step
\* changes the record of one invocation only, and the new record is one that
\* this invocation reaches from its own record when it runs alone (its own
\* arguments and the answer to its own request); the record of the other
\* invocation is neither written nor read.
C14_InvocationsIndependent ==
  [][ \E i \in DOMAIN inv :
        /\ inv'[i] \in Successors(inv[i])
        /\ \A j \in DOMAIN inv \ {i} : inv'[j] = inv[j] ]_vars

C14_Witness ==
  /\ DOMAIN inv = Invocations2
  /\ inv["i1"].call.op = "poll" /\ inv["i1"].pc = "sleep" /\ inv["i1"].pollCalls = 2
  /\ IsToolCall(inv["i2"], "download_twitter_space")
  /\ inv["i2"].pc = "fetch" /\ inv["i2"].pollCalls = 4 /\ inv["i2"].attempt = 3

\* C15: the timer a call of makeApiRequest arms is pending only while that
\* call awaits its fetch: once the call has returned a value or thrown (non-2xx,
\* unparsable body, network error, abort) no timer of it is left, so between
\* requests, during a poll sleep and after the tool call no timer is pending.
C15_TimerDisarmedOnEveryExit ==
  \A i \in DOMAIN inv :
    LET s == inv[i]
    IN  (s.lastReq.ep # "transcript") =>
          /\ s.timers = (IF s.pc = "fetch" THEN 1 ELSE 0)
          /\ (s.lastSettle \in {"ok", "http", "badjson", "neterr", "abort"} /\ s.pc # "fetch"
                => s.timers = 0)

C15_Witness ==
  \E i \in DOMAIN inv :
    /\ IsToolCall(inv[i], "list_spaces")
    /\ inv[i].lastSettle = "neterr"
    /\ inv[i].pc = "done" /\ inv[i].timers = 0
    /\ inv[i].response.text = <<"Error: ", "API request failed: ", "fetch failed">>

\* the text of an error as the caller of this invocation gets it
ErrorText(s) == IF s.call.op = "mcp" THEN <<"Error: ">> ELSE <<>>

\* C16: one call of makeApiRequest sends one request whatever the outcome: a
\* failed request (non-2xx, unparsable body, network error, timeout) is not sent
\* again, its error ends the call that made it; a non-2xx answer gives the
\* error 'API request failed: HTTP <status>: <body text>'.
C16_OneRequestPerCall ==
  \A i \in DOMAIN inv :
    LET s == inv[i]
    IN  (s.lastReq.ep \notin {"transcript", "none"}) =>
          /\ \A e \in Endpoints : s.calls[e] <= 1
          /\ (s.pollStage # "none" /\ s.stage \in PollStages /\ s.pc = "fetch"
                => s.pollCalls = s.attempt + 1)
          /\ (s.lastSettle \in {"http", "badjson", "neterr", "abort"} =>
                /\ s.pc = "done" /\ s.inflight = 0
                /\ s.response.thrown = "RequestError"
                /\ SubSeq(s.response.text, 1, Len(ErrorText(s)) + 1)
                     = ErrorText(s) \o <<"API request failed: ">>
                /\ (s.lastReq.ep \in PollEndpoints =>
                      s.pollCalls = s.attempt + 1 /\ s.sleeps = s.attempt))
          /\ (s.lastSettle = "http" =>
                \E o \in Failures :
                  /\ o.kind = "http"
                  /\ s.response.text = ErrorText(s) \o
                       <<"API request failed: ", "HTTP ", o.status, ": ", o.text>>)

C16_Witness ==
  \E i \in DOMAIN inv :
    /\ IsToolCall(inv[i], "check_space_availability")
    /\ inv[i].lastSettle = "http"
    /\ inv[i].calls["check"] = 1
    /\ inv[i].response.text =
         <<"Error: ", "API request failed: ", "HTTP ", "404", ": ", "not found">>

\* C17: a tick whose snapshot has a status outside the completed and the failed
\* set (another string, or no status field) neither returns nor fails: the
\* poll sleeps intervalMs and goes on to the next tick; with such a snapshot as
\* the last answer the poll is still running or ended TimedOut, with the
\* attempts used up.
C17_UnknownStatusKeepsPolling ==
  \A i \in DOMAIN inv :
    LET s == inv[i]
        o == s.outcome[s.pollStage]
    IN  ( /\ s.pollStage # "none" /\ s.pollCalls > 0
          /\ s.lastReq.ep \in PollEndpoints /\ s.lastSettle = "ok"
          /\ ~(s.pc = "fetch" /\ s.pollCalls = 1)
          /\ s.lastRead.json # "null"
          /\ s.lastRead.status \notin (CompletedStatuses \cup FailedStatuses) ) =>
          /\ o \in {"Polling", "TimedOut"}
          /\ s.response.thrown \in {"none", "Timeout"}
          /\ (s.pc = "sleep" => s.sleeps = s.pollCalls /\ s.intervalMs \in s.sleepDurs)
          /\ (s.pc = "fetch" => s.sleeps = s.pollCalls - 1 /\ s.pollCalls = s.attempt + 1)
          /\ (o = "TimedOut" =>
                s.attempt = s.maxAttempts /\ s.pollCalls = s.maxAttempts /\ s.sleeps = s.maxAttempts)

C17_Witness ==
  \E i \in DOMAIN inv :
    /\ IsToolCall(inv[i], "download_twitter_space")
    /\ inv[i].lastRead = EmptyObj /\ inv[i].lastSettle = "ok"
    /\ inv[i].pc = "sleep" /\ inv[i].pollCalls = 3 /\ inv[i].sleeps = 3
    /\ inv[i].outcome["dlpoll"] = "Polling"

\* C18: list_spaces makes one request, the GET to /api/spaces.  When the answer
\* has no truthy r2_configured (false or absent) the result is the text 'R2
\* storage is not configured. No spaces available.', whether the answer has
\* spaces or not; when r2_configured is true and spaces is absent or empty the
\* result is the 'No spaces found' text; neither is an error.
C18_ListSpacesEmptyStates ==
  \A i \in DOMAIN inv :
    LET s == inv[i]
        b == s.lastBody
        plain == /\ s.response.kind = "result" /\ s.response.content = "text"
                 /\ s.response.thrown = "none"
    IN  IsToolCall(s, "list_spaces") =>
          /\ s.calls = [e \in Endpoints |-> IF e = "spaces" THEN 1 ELSE 0]
          /\ s.polled = {} /\ s.lastReq = Req("GET", "spaces", <<>>, <<>>)
          /\ (s.pc = "done" /\ s.lastSettle = "ok" /\ b.json = "object") =>
                /\ s.inflight = 0
                /\ (b.r2_configured \in {"false", U} =>
                      /\ plain
                      /\ s.response.text = <<"R2 storage is not configured. No spaces available.">>)
                /\ ((b.r2_configured = "true" /\ (~b.spaces.present \/ b.spaces.items = <<>>)) =>
                      /\ plain
                      /\ s.response.text =
                           <<"No spaces found. Download some Twitter Spaces to get started!">>)

C18_Witness ==
  \E i \in DOMAIN inv :
    /\ IsToolCall(inv[i], "list_spaces")
    /\ inv[i].lastBody.r2_configured = "false"
    /\ inv[i].lastBody.spaces.items = <<Space1>>
    /\ inv[i].response.text = <<"R2 storage is not configured. No spaces available.">>

\* C19: a JSON-RPC request whose method is none of initialize, tools/list and
\* tools/call is answered with the error object of code -32601 and the message
\* 'Method not found: <method>', without a result and without tool text, and no
\* request goes to the backend; a tools/call that names no tool of the server
\* sends no request either (it is answered with the 'Unknown tool' text).
C19_UnknownMethodIsProtocolError ==
  \A i \in DOMAIN inv :
    LET s == inv[i]
    IN  /\ ( /\ s.call.op = "mcp" /\ s.pc # "idle"
              /\ s.call.method \notin {"initialize", "tools/list", "tools/call"} ) =>
              /\ s.pc = "done"
              /\ s.response.kind = "error" /\ s.response.code = -32601
              /\ s.response.content = "none"
              /\ s.response.text = <<"Method not found: ", s.call.method>>
              /\ NoBackendCall(s) /\ s.timers = 0
        /\ ( /\ s.call.op = "mcp" /\ s.call.method = "tools/call" /\ s.call.params # U
              /\ s.call.name \notin ToolNames ) =>
              /\ s.pc = "done"
              /\ NoBackendCall(s) /\ s.timers = 0
              /\ s.response.kind = "result" /\ s.response.thrown = "UnknownTool"
              /\ s.response.text = <<"Error: ", "Unknown tool: ", s.call.name>>

C19_Witness ==
  \E i \in DOMAIN inv :
    /\ inv[i].call.op = "mcp" /\ inv[i].call.method = "ping"
    /\ inv[i].pc = "done"
    /\ inv[i].response.kind = "error" /\ inv[i].response.code = MethodNotFound
    /\ inv[i].response.text = <<"Method not found: ", "ping">>

\* C20: tool discovery, by tools/list over POST or by GET /mcp, answers the same
\* list of the six tool schemas on every call, with or without a configuration
\* in the query and whatever another invocation is doing, and sends no request
\* to the backend; no operation modifies the list.
C20_ToolListStatic ==
  /\ tools = TOOLS
  /\ Len(tools) = 6
  /\ { tools[k].name : k \in 1..Len(tools) } = ToolNames
  /\ \A i \in DOMAIN inv :
       LET s == inv[i]
       IN  ( s.pc # "idle" /\ ( s.call.op = "get"
                                 \/ (s.call.op = "mcp" /\ s.call.method = "tools/list") ) ) =>
             /\ s.pc = "done"
             /\ s.response.kind = (IF s.call.op = "get" THEN "json" ELSE "result")
             /\ s.response.tools = TOOLS
             /\ s.response.thrown = "none"
             /\ NoBackendCall(s) /\ s.timers = 0

C20_Witness ==
  /\ DOMAIN inv = Invocations2
  /\ IsToolCall(inv["i1"], "download_twitter_space")
  /\ inv["i1"].pc = "sleep" /\ inv["i1"].pollCalls = 2
  /\ inv["i2"].call.op = "mcp" /\ inv["i2"].call.method = "tools/list"
  /\ inv["i2"].call.query = NoQuery
  /\ inv["i2"].pc = "done" /\ inv["i2"].response.tools = TOOLS

\* C21: get_transcript does not validate format: for every format value, in the
\* enum of the schema or not, it sends one GET to
\* /api/transcript/{space_id}/download/{format} (paragraphs when format is
\* omitted) and never polls; a non-2xx answer of the backend becomes the text
\* 'Error: HTTP <status>: <body text>'.
C21_TranscriptFormatNotValidated ==
  \A i \in DOMAIN inv :
    LET s == inv[i]
    IN  (IsToolCall(s, "get_transcript") /\ s.call.args # U) =>
          /\ s.calls = [e \in Endpoints |-> IF e = "transcript" THEN 1 ELSE 0]
          /\ s.polled = {} /\ s.pollStage = "none" /\ s.pollCalls = 0 /\ s.sleeps = 0
          /\ s.pc \in {"fetch", "done"}
          /\ s.lastReq = Req("GET", "transcript",
                             <<s.call.space_id, "/download/",
                               IF s.call.format = U THEN "paragraphs" ELSE s.call.format>>,
                             <<>>)
          /\ (s.lastSettle = "http" =>
                /\ s.pc = "done"
                /\ s.response.kind = "result" /\ s.response.content = "text"
                /\ \E o \in Failures :
                     /\ o.kind = "http"
                     /\ s.response.text = <<"Error: ", "HTTP ", o.status, ": ", o.text>>)
          /\ (s.lastSettle = "ok" =>
                /\ s.pc = "done" /\ s.response.thrown = "none"
                /\ s.response.text[1] = "Transcript for space ")

C21_Witness ==
  \E i \in DOMAIN inv :
    /\ IsToolCall(inv[i], "get_transcript")
    /\ inv[i].call.format = "xml"
    /\ inv[i].lastReq.id = <<"sA", "/download/", "xml">>
    /\ inv[i].lastSettle = "http"
    /\ inv[i].response.text = <<"Error: ", "HTTP ", "404", ": ", "not found">>

\* the number parseInt reads in the timeout of the query, when it is above 0
\* (0 when the timeout is absent, empty, not a number, zero or negative)
PositiveTimeout(v) ==
  IF v.t = "string" /\ v.s # <<>> /\ ~ParseInt(v.s).nan /\ ParseInt(v.s).n > 0
  THEN ParseInt(v.s).n ELSE 0

\* C22 as stated: the delay of every timeout timer armed is above 0 ms: it is
\* timeout*1000 for a positive integer given as timeout and 30000 for every
\* other timeout value (absent, '0', not a number, negative).
C22_ArmedDelayPositive ==
  \A i \in DOMAIN inv :
    LET s == inv[i]
        n == PositiveTimeout(s.call.query.timeout)
    IN  s.lastReq # NoReq =>
          /\ s.timerMs > 0
          /\ s.timerMs = (IF n > 0 THEN n * 1000 ELSE 30000)

\* the requests of a tool call so far: at most one per start or read endpoint,
\* the status endpoints of its own polls only, and within a poll at most 60
\* (download) or 120 (transcription) status requests
RequestsBounded ==
  \A i \in DOMAIN inv :
    LET s == inv[i]
        starts == { e \in Endpoints : s.calls[e] > 0 }
    IN  (s.call.op = "mcp") =>
          /\ \A e \in Endpoints : s.calls[e] <= 1
          /\ (s.pollStage = "dlpoll" => s.pollCalls <= 60 /\ s.maxAttempts = 60)
          /\ (s.pollStage = "trpoll" => s.pollCalls <= 120 /\ s.maxAttempts = 120)
          /\ s.pollStage \in {"none", "dlpoll", "trpoll"}
          /\ (IsToolCall(s, "check_space_availability") =>
                starts \subseteq {"check"} /\ s.polled = {} /\ s.pollStage = "none")
          /\ (IsToolCall(s, "get_transcript") =>
                starts \subseteq {"transcript"} /\ s.polled = {} /\ s.pollStage = "none")
          /\ (IsToolCall(s, "list_spaces") =>
                starts \subseteq {"spaces"} /\ s.polled = {} /\ s.pollStage = "none")
          /\ (IsToolCall(s, "download_twitter_space") =>
                starts \subseteq {"download"} /\ s.polled \subseteq {"status"}
                /\ s.pollStage \in {"none", "dlpoll"})
          /\ (IsToolCall(s, "transcribe_space") =>
                starts \subseteq {"transcribe"} /\ s.polled \subseteq {"trstatus"}
                /\ s.pollStage \in {"none", "trpoll"})
          /\ (IsToolCall(s, "download_and_transcribe_space") =>
                starts \subseteq {"check", "download", "transcribe"})
          /\ ((s.call.method # "tools/call" \/ s.call.params = U \/ s.call.name \notin ToolNames)
                => NoBackendCall(s))

\* a call runs each of its polls once: a poll is entered from no poll, or the
\* transcription poll after the download poll, and within a poll the count of
\* its status requests only grows, by one request at a time
PollsRunOnce ==
  \A i \in DOMAIN inv :
    /\ (inv'[i].pollStage # inv[i].pollStage =>
          \/ inv[i].pollStage = "none"
          \/ inv[i].pollStage = "dlpoll" /\ inv'[i].pollStage = "trpoll")
    /\ (inv'[i].pollStage = inv[i].pollStage /\ inv[i].pollStage # "none" =>
          inv'[i].pollCalls \in {inv[i].pollCalls, inv[i].pollCalls + 1})
    /\ \A e \in Endpoints : inv'[i].calls[e] \in {inv[i].calls[e], inv[i].calls[e] + 1}

\* C23: every call terminates when requests settle and sleeps end, and its
\* requests are bounded: one for check_space_availability, get_transcript and
\* list_spaces, 1+60 for download_twitter_space, 1+120 for transcribe_space and
\* 1+1+60+1+120 = 183 for download_and_transcribe_space, with one start call
\* per backend resource and each poll run once.
C23_TerminatesWithBoundedRequests ==
  /\ []RequestsBounded
  /\ [][PollsRunOnce]_vars
  /\ \A i \in Invocations : (inv[i].pc # "idle") ~> (inv[i].pc = "done")

C23_Witness ==
  \E i \in DOMAIN inv :
    /\ IsToolCall(inv[i], "download_and_transcribe_space")
    /\ inv[i].pc = "done"
    /\ inv[i].outcome["dlpoll"] = "Completed"
    /\ inv[i].outcome["trpoll"] = "TimedOut"
    /\ inv[i].pollCalls = TranscribeMaxAttempts
    /\ \A e \in {"check", "download", "transcribe"} : inv[i].calls[e] = 1

\* C24: the error a poll raises on a failed status is 'Operation failed: '
\* followed by the error field of the snapshot when that field is present and
\* not empty, and by its message field otherwise.
C24_FailedCarriesErrorOrMessage ==
  \A i \in DOMAIN inv :
    LET s == inv[i]
        snap == s.lastRead
    IN  (s.pollStage # "none" /\ s.outcome[s.pollStage] = "Failed") =>
          /\ snap.status \in FailedStatuses
          /\ s.response.thrown = "OperationFailed"
          /\ s.response.text =
               ErrorText(s) \o
               <<"Operation failed: ",
                 IF snap.error # U /\ snap.error # "" THEN snap.error ELSE snap.message>>

C24_Witness ==
  \E i \in DOMAIN inv :
    /\ IsToolCall(inv[i], "download_twitter_space")
    /\ inv[i].outcome["dlpoll"] = "Failed"
    /\ inv[i].lastRead.error = "" /\ inv[i].lastRead.message = "no luck"
    /\ inv[i].response.text = <<"Error: ", "Operation failed: ", "no luck">>

\* C25 as stated: get_transcript leaves no timer pending when it has returned,
\* on whichever path: the transcript, a non-2xx answer, a fetch that rejects
\* (network error) or the abort.
C25_TranscriptTimerDisarmed ==
  \A i \in DOMAIN inv :
    (IsToolCall(inv[i], "get_transcript") /\ inv[i].pc = "done") => inv[i].timers = 0

\* C26: a poll that ends TimedOut with a budget of N attempts has made N
\* requests and N sleeps of intervalMs each: it sleeps after the N-th status as
\* well, and the timed-out error is raised when that sleep has ended.
C26_TimedOutAfterNSleeps ==
  \A i \in DOMAIN inv :
    LET s == inv[i]
    IN  /\ (s.pollStage # "none" /\ s.outcome[s.pollStage] = "TimedOut") =>
              /\ s.pollCalls = s.maxAttempts
              /\ s.sleeps = s.maxAttempts
              /\ s.sleepDurs = (IF s.maxAttempts > 0 THEN {s.intervalMs} ELSE {})
        /\ (s.pollStage # "none" /\ s.pc = "sleep" /\ s.attempt = s.maxAttempts - 1) =>
              /\ s.outcome[s.pollStage] = "Polling"
              /\ s.pollCalls = s.maxAttempts /\ s.sleeps = s.maxAttempts

C26_Witness ==
  \E i \in DOMAIN inv :
    /\ inv[i].call.op = "poll"
    /\ inv[i].outcome["poll"] = "TimedOut"
    /\ inv[i].maxAttempts = MaxDirectAttempts
    /\ inv[i].pollCalls = MaxDirectAttempts /\ inv[i].sleeps = MaxDirectAttempts
    /\ inv[i].sleepDurs = {DefaultIntervalMs}

\* the parts of the progress text of download_twitter_space and transcribe_space
ProgressLabels ==
  { "Started download for ", "Download ID: ", "Waiting for download to complete...\n\n",
    "Started transcription for space ", "Transcription ID: ",
    "Waiting for transcription to complete...\n\n", "Status: ", "Message: " }

\* C27: download_twitter_space and transcribe_space that got the handle of the
\* operation from the start call and whose poll then ended Failed, TimedOut or
\* with a request error return the error description alone, 'Error: ' and the
\* message of the error: the progress text built so far, the handle
\* (download_id, transcription_id) included, is not in the result.
C27_ProgressDiscardedOnPollError ==
  \A i \in DOMAIN inv :
    LET s == inv[i]
        text == s.response.text
        handle == s.statusUrl.id[1]
    IN  ( /\ (IsToolCall(s, "download_twitter_space") \/ IsToolCall(s, "transcribe_space"))
          /\ s.pollStage # "none"
          /\ s.outcome[s.pollStage] \in {"Failed", "TimedOut", "RequestError"} ) =>
          /\ s.pc = "done"
          /\ Contains(s.acc, IF s.pollStage = "dlpoll" THEN "Download ID: "
                              ELSE "Transcription ID: ", handle)
          /\ s.response.kind = "result" /\ s.response.content = "text"
          /\ text[1] = "Error: "
          /\ text[2] \in {"Operation failed: ", "Operation timed out after ",
                           "API request failed: "}
          /\ \A k \in 1..Len(text) : text[k] \notin ProgressLabels
          /\ (handle # U => ~Mentions(text, handle))
          /\ (s.outcome[s.pollStage] = "Failed" => Len(text) = 3)
          /\ (s.outcome[s.pollStage] = "TimedOut" => Len(text) = 4)

C27_Witness ==
  \E i \in DOMAIN inv :
    /\ IsToolCall(inv[i], "download_twitter_space")
    /\ inv[i].statusUrl.id = <<"d1">>
    /\ Contains(inv[i].acc, "Download ID: ", "d1")
    /\ inv[i].outcome["dlpoll"] = "RequestError"
    /\ inv[i].response.text =
         <<"Error: ", "API request failed: ", "HTTP ", "500", ": ", "boom">>

\* id is the longest run of alphanumeric characters right after the leftmost
\* "/spaces/" of u that has an alphanumeric character after it
IsSpaceIdOf(id, u) ==
  \E p \in 1..Len(u) :
    LET q == p + Len(SpacesLit)
        e == q + Len(id) - 1
    IN  /\ Len(id) > 0 /\ e <= Len(u)
        /\ SubSeq(u, p, q - 1) = SpacesLit
        /\ SubSeq(u, q, e) = id
        /\ \A k \in 1..Len(id) : id[k] \in Alnum
        /\ (e < Len(u) => u[e + 1] \notin Alnum)
        /\ \A p2 \in 1..(p - 1) :
             ~( /\ p2 + Len(SpacesLit) <= Len(u)
                /\ SubSeq(u, p2, p2 + Len(SpacesLit) - 1) = SpacesLit
                /\ u[p2 + Len(SpacesLit)] \in Alnum )

\* C28: check_space_availability with a URL that has "/spaces/" followed by an
\* alphanumeric character sends one request, the GET to /api/check-space/{id}
\* with id the longest alphanumeric run after the leftmost such "/spaces/", and
\* never polls; an answer with available false is reported as text like any
\* other answer.
C28_SpaceIdIsMaximalRun ==
  \A i \in DOMAIN inv :
    LET s == inv[i]
    IN  (IsToolCall(s, "check_space_availability") /\ WellFormedUrl(s)) =>
          /\ s.pc \in {"fetch", "done"}
          /\ s.lastReq.method = "GET" /\ s.lastReq.ep = "check" /\ s.lastReq.body = <<>>
          /\ IsSpaceIdOf(s.lastReq.id, s.call.space_url.s)
          /\ s.calls = [e \in Endpoints |-> IF e = "check" THEN 1 ELSE 0]
          /\ s.polled = {} /\ s.pollStage = "none" /\ s.pollCalls = 0 /\ s.sleeps = 0
          /\ ( (s.pc = "done" /\ s.lastSettle = "ok" /\ s.lastBody.json = "object"
                  /\ s.lastBody.available = "false") =>
                /\ s.response.kind = "result" /\ s.response.thrown = "none"
                /\ Contains(s.response.text, CrossMark(s), " No") )

C28_Witness ==
  \E i \in DOMAIN inv :
    /\ IsToolCall(inv[i], "check_space_availability")
    /\ inv[i].call.space_url = JsString(SpacesLit \o SpacesLit \o <<"1", "Z">>)
    /\ inv[i].lastReq.id = <<"1", "Z">>
    /\ inv[i].lastBody.available = "false"
    /\ Contains(inv[i].response.text, CrossMark(inv[i]), " No")


(***************************************************************************)
(* C29: the two adapter variants, the handlers registered with server.tool *)
(* and the switch of handleCallTool, are equivalent on the core: for every *)
(* tool, every arguments value and every sequence of backend answers both  *)
(* issue the same sequence of backend requests and sleeps and end in the   *)
(* same outcome kind (success or error), with identical text on success.   *)
(***************************************************************************)
OutcomeKind(s) == IF s.response.thrown = "none" THEN "success" ELSE "error"

\* both adapters are at the same place, with the same requests and sleeps behind them
SameRequestsAndSleeps(a, b) ==
  /\ a.pc = b.pc
  /\ a.lastReq = b.lastReq
  /\ a.calls = b.calls
  /\ a.sleeps = b.sleeps
  /\ a.sleepDurs = b.sleepDurs

SameOutcome(a, b) ==
  (a.pc = "done" /\ b.pc = "done")
    => /\ OutcomeKind(a) = OutcomeKind(b)
       /\ (OutcomeKind(a) = "success" => a.response.text = b.response.text)

Glyphs ==
  { CheckMarkRoute, CrossMarkRoute, PartyMarkRoute, CheckMarkTool, CrossMarkTool, PartyMarkTool }

StripGlyphs(text) == SelectSeq(text, LAMBDA x : x \notin Glyphs)

\* what the adapters do share: called with an arguments object they issue the
\* same requests and sleeps and end in the same outcome kind, and their texts
\* on success are the same up to the glyphs
AdaptersAgreeWithArguments ==
  LET a == inv["route"]
      b == inv["tool"]
  IN  a.call.args # U
        => /\ SameRequestsAndSleeps(a, b)
           /\ (a.pc = "done" /\ b.pc = "done")
                => /\ OutcomeKind(a) = OutcomeKind(b)
                   /\ (OutcomeKind(a) = "success"
                         => StripGlyphs(a.response.text) = StripGlyphs(b.response.text))

C29_AdaptersEquivalent ==
  ("route" \in DOMAIN inv /\ "tool" \in DOMAIN inv)
    => /\ SameRequestsAndSleeps(inv["route"], inv["tool"])
       /\ SameOutcome(inv["route"], inv["tool"])

=============================================================================
